---- MODULE Spec2Model ----
(***************************************************************************)
(* Verification model of the authorization / webhook core of the          *)
(* fastapi-backend-template repository.                                   *)
(*                                                                         *)
(* Two specifications share this module:                                   *)
(*   Spec     the two payment-provider webhook endpoints                   *)
(*            (app/api/v1/routers/webhooks.py) acting on the tenants and   *)
(*            webhook_events tables;                                       *)
(*   SpecApi  the request dependency chain                                 *)
(*            (app/api/v1/dependencies.py, app/db/session.py) acting on    *)
(*            pooled database connections.                                 *)
(***************************************************************************)
EXTENDS Integers, FiniteSets, Sequences, TLC

(***************************************************************************)
(* Bounds of the model.                                                    *)
(***************************************************************************)
MaxTs ==
    2

MaxTime ==
    2

MaxDeliveries ==
    2

PeriodLen ==
    2

Null ==
    "null"

\* A NULL timestamp column (timestamps are integers >= 0).
NoTime ==
    0 - 1

(***************************************************************************)
(* Data: tenants, plans and provider events.                               *)
(***************************************************************************)
Tenants ==
    {"t1", "t2"}

PlanId ==
    "plan1"

\* ref: the tenant the event points at (client_reference_id, provider
\* customer, or customer e-mail); Null when it points at nothing we know.
Refs ==
    Tenants \cup {Null}

\* The tenants provider events are about.  The other tenant has no
\* subscription traffic: it is the row no delivery may touch.
Customers ==
    {"t1"}

CustOf(t) ==
    "cus_" \o t

SubOf(t) ==
    "sub_" \o t

StripeShapes ==
    { <<"checkout.session.completed", "subscription">>,
      <<"checkout.session.completed", "no_ids">>,
      <<"invoice.payment_failed", "-">>,
      <<"customer.subscription.updated", "cancel_at_period_end">>,
      <<"customer.subscription.deleted", "canceled">>,
      <<"charge.succeeded", "-">> }

\* Shapes also sent with a reference that resolves to no tenant.
StripeOrphanShapes ==
    { <<"checkout.session.completed", "subscription">>,
      <<"invoice.payment_failed", "-">> }

DodoShapes ==
    { <<"subscription.active", "ok">>,
      <<"subscription.active", "no_ids">>,
      <<"subscription.on_hold", "ok">>,
      <<"subscription.cancelled", "ok">>,
      <<"payment.succeeded", "ok">> }

DodoOrphanShapes ==
    { <<"subscription.on_hold", "ok">> }

\* An event is identified by its content: the provider's event id names one
\* immutable payload, so a redelivery carries the same record.
MkEvent(p, s, t, r) ==
    [provider |-> p, type |-> s[1], detail |-> s[2], ts |-> t, ref |-> r]

\* An event that resolves to no tenant is refused before its timestamp is
\* read (lines 165-166 and 265-270 precede the out-of-order checks), so one
\* timestamp stands for all of them.
StripeEvents ==
    { MkEvent("stripe", s, t, r) : s \in StripeShapes, t \in 1..MaxTs, r \in Customers }
    \cup { MkEvent("stripe", s, 1, Null) : s \in StripeOrphanShapes }

DodoEvents ==
    { MkEvent("dodo", s, t, r) : s \in DodoShapes, t \in 1..MaxTs, r \in Customers }
    \cup { MkEvent("dodo", s, 1, Null) : s \in DodoOrphanShapes }

Events ==
    StripeEvents \cup DodoEvents

\* class Tenant: the columns the webhook processors read and write.
NewTenant ==
    [ plan_id |-> Null,
      subscription_status |-> "inactive",
      current_period_ends_at |-> NoTime,
      external_subscription_id |-> Null,
      external_customer_id |-> Null,
      name |-> "Acme",
      updated_at |-> 0 ]

\* The subscription columns of a tenant (everything but updated_at).
Core(t) ==
    [ plan_id |-> t.plan_id,
      subscription_status |-> t.subscription_status,
      current_period_ends_at |-> t.current_period_ends_at,
      external_subscription_id |-> t.external_subscription_id,
      external_customer_id |-> t.external_customer_id ]

\* class WebhookEvent: id and processed_successfully (default False).
NoRow ==
    [id |-> Null, processed_successfully |-> FALSE]

NewRow(ev) ==
    [id |-> ev, processed_successfully |-> FALSE]

RowOf(rows, ev) ==
    IF \E r \in rows : r.id = ev
    THEN CHOOSE r \in rows : r.id = ev
    ELSE NoRow

HasRow(rows, ev) ==
    \E r \in rows : r.id = ev

PutRow(rows, ev, done) ==
    {r \in rows : r.id # ev} \cup {[id |-> ev, processed_successfully |-> done]}

(***************************************************************************)
(* Request dependency chain: identities, credentials, routes and the       *)
(* per-connection settings read by the row-level security policies.        *)
(***************************************************************************)
PoolSize ==
    2

Unset ==
    "unset"

\* settings.SUPERADMIN_USER_ID
SuperadminId ==
    "sa"

\* The users table: u1 has accepted the terms, u2 (invited) has not.
Profiles ==
    [ u1 |-> [tenant_id |-> "t1", terms_accepted |-> TRUE],
      u2 |-> [tenant_id |-> "t2", terms_accepted |-> FALSE] ]

HasProfile(u) ==
    u \in DOMAIN Profiles

\* Token subjects: the two users, the superadmin (no profile) and a
\* signed-up subject whose profile was never provisioned.
Subjects ==
    {"u1", "u2", SuperadminId, "ghost"}

\* AuthenticatedUser
NoUser ==
    [id |-> Null, tenant_id |-> Null, is_superadmin |-> FALSE]

\* Settings of a fresh connection: none of the app.* variables is set.
NoSettings ==
    [is_superadmin |-> Unset, current_user_id |-> Unset, current_tenant_id |-> Unset]

\* Claims of a token besides sub: the e-mail and whatever else the issuer
\* or the bearer put into the payload (here a role claim).
NoClaims ==
    [email |-> Null, role |-> "-"]

TokenClaims ==
    { [email |-> "u@example.com", role |-> "authenticated"],
      [email |-> Null, role |-> "superadmin"] }

\* An X-API-Key value as api_key.split('_') sees it: the number of parts,
\* the first two parts, and the secret part as <<its first 8 characters,
\* the characters after them>>.
ApiKey(parts, scheme, env, first8, rest) ==
    [parts |-> parts, scheme |-> scheme, env |-> env, secret |-> <<first8, rest>>]

NoKey ==
    ApiKey(0, "-", "-", "-", "-")

\* passlib pwd_context.hash / verify
Hash(api_key) ==
    <<"bcrypt", api_key>>

verify(api_key, hashed_key) ==
    hashed_key = Hash(api_key)

\* class ApiKey: key_prefix is unique.  The row "sk_live_cccccccc" holds
\* the hash of a key with another prefix, and the owner of
\* "sk_live_dddddddd" has no users row.
ApiKeys ==
    [ sk_live_aaaaaaaa |-> [hashed_key |-> Hash(ApiKey(3, "sk", "live", "aaaaaaaa", "x1")),
                            user_id |-> "u1"],
      sk_live_bbbbbbbb |-> [hashed_key |-> Hash(ApiKey(3, "sk", "live", "bbbbbbbb", "y1")),
                            user_id |-> "u2"],
      sk_live_cccccccc |-> [hashed_key |-> Hash(ApiKey(3, "sk", "live", "aaaaaaaa", "x2")),
                            user_id |-> "u2"],
      sk_live_dddddddd |-> [hashed_key |-> Hash(ApiKey(3, "sk", "live", "dddddddd", "w1")),
                            user_id |-> "gone"] ]

PresentedKeys ==
    { ApiKey(3, "sk", "live", "aaaaaaaa", "x1"),
      ApiKey(3, "sk", "live", "aaaaaaaa", "x2"),
      ApiKey(3, "sk", "live", "bbbbbbbb", "y1"),
      ApiKey(3, "sk", "live", "dddddddd", "w1"),
      ApiKey(3, "sk", "live", "eeeeeeee", "z1"),
      ApiKey(3, "sk", "test", "aaaaaaaa", "x1"),
      ApiKey(4, "sk", "live", "aaaaaaaa", "x1") }

JwtCreds ==
    { [kind |-> "jwt", case |-> "ok", sub |-> u, claims |-> c, key |-> NoKey] :
        u \in Subjects, c \in TokenClaims }
    \cup { [kind |-> "jwt", case |-> "invalid", sub |-> Null, claims |-> NoClaims,
             key |-> NoKey] }

ApiKeyCreds ==
    { [kind |-> "api_key", case |-> "key", sub |-> Null, claims |-> NoClaims, key |-> k] :
        k \in PresentedKeys }

NoCred ==
    [kind |-> "none", case |-> "none", sub |-> Null, claims |-> NoClaims, key |-> NoKey]

\* Routes by the session dependency they use and by whether their dependency
\* tree contains get_current_user (and with it require_terms_accepted).
Routes ==
    { [name |-> "GET /users/me", session |-> "auth", terms |-> TRUE],
      [name |-> "GET /users", session |-> "auth", terms |-> FALSE],
      [name |-> "GET /items", session |-> "auth", terms |-> FALSE],
      [name |-> "GET /public/plans", session |-> "db", terms |-> FALSE],
      [name |-> "POST /webhooks/stripe", session |-> "system", terms |-> FALSE] }

Idle ==
    [ pc |-> "idle", route |-> [name |-> "-", session |-> "-", terms |-> FALSE],
      cred |-> NoCred, conn |-> 0, settings |-> NoSettings, user |-> NoUser,
      status |-> 0 ]


(***************************************************************************)
(* Permissions (app/core/permissions.py) and the role schemas              *)
(* (app/schemas/role_schemas.py).                                          *)
(***************************************************************************)
\* Number of single-bit members of AppPermissions kept in the model: the
\* first NumPermissions members in declaration order.
NumPermissions ==
    8

\* The single-bit members in declaration order; auto() gives the k-th
\* member the value 2^(k-1).
FlagNames ==
    << "USERS_READ", "USERS_INVITE", "USERS_UPDATE_ROLE", "USERS_DELETE",
       "ROLES_READ", "ROLES_CREATE", "ROLES_UPDATE", "ROLES_DELETE",
       "ITEMS_READ", "ITEMS_CREATE", "ITEMS_UPDATE", "ITEMS_DELETE",
       "CUSTOM_OBJECTS_CREATE", "CUSTOM_OBJECTS_READ", "CUSTOM_OBJECTS_UPDATE",
       "CUSTOM_OBJECTS_DELETE", "RECORDS_CREATE", "RECORDS_READ",
       "RECORDS_UPDATE", "RECORDS_DELETE", "CUSTOMERS_CREATE",
       "CUSTOMERS_READ", "CUSTOMERS_UPDATE", "CUSTOMERS_DELETE" >>

RECURSIVE Pow2(_)
Pow2(k) ==
    IF k = 0 THEN 1 ELSE 2 * Pow2(k - 1)

\* Python's | and & on non-negative integers.
RECURSIVE BitOr(_, _)
BitOr(a, b) ==
    IF a = 0 THEN b
    ELSE IF b = 0 THEN a
    ELSE (IF a % 2 = 1 \/ b % 2 = 1 THEN 1 ELSE 0) + 2 * BitOr(a \div 2, b \div 2)

RECURSIVE BitAnd(_, _)
BitAnd(a, b) ==
    IF a = 0 \/ b = 0 THEN 0
    ELSE (IF a % 2 = 1 /\ b % 2 = 1 THEN 1 ELSE 0) + 2 * BitAnd(a \div 2, b \div 2)

\* x & y for any integer x and y >= 0: a negative Python int behaves as an
\* infinite two's complement number, so x & y = y - (~x & y) with ~x = -x-1.
PyAnd(x, y) ==
    IF x >= 0 THEN BitAnd(x, y) ELSE y - BitAnd((0 - x) - 1, y)

SingleNames ==
    {FlagNames[k] : k \in 1..NumPermissions}

\* AppPermissions.__members__ lists every name of the class, the zero
\* member NONE and the combination TENANT_ADMIN_PERMISSIONS included.
MemberNames ==
    SingleNames \cup {"NONE", "TENANT_ADMIN_PERMISSIONS"}

RECURSIVE OrOfFirst(_)
OrOfFirst(k) ==
    IF k = 0 THEN 0 ELSE BitOr(Pow2(k - 1), OrOfFirst(k - 1))

\* AppPermissions[name].value
MemberValue(n) ==
    IF n = "NONE" THEN 0
    ELSE IF n = "TENANT_ADMIN_PERMISSIONS" THEN OrOfFirst(NumPermissions)
    ELSE Pow2((CHOOSE k \in 1..Len(FlagNames) : FlagNames[k] = n) - 1)

\* A nullable integer column: <<>> is NULL, <<v>> holds v.
NullInt ==
    << >>

\* user_roles.permission_set: NULL, every combination of the defined bits,
\* one bit beyond them, and negative values.
PermissionSets ==
    {NullInt} \cup { <<v>> : v \in (0 - Pow2(NumPermissions)) .. Pow2(NumPermissions) }

\* RoleCreate.to_permission_set_int
RECURSIVE to_permission_set_int(_)
to_permission_set_int(permissions) ==
    IF permissions = {}
    THEN 0
    ELSE LET p_name == CHOOSE n \in permissions : TRUE
         IN  BitOr(MemberValue(p_name), to_permission_set_int(permissions \ {p_name}))

\* RoleRead.permissions
RoleReadPermissions(permission_set) ==
    LET permission_mask == IF permission_set = NullInt THEN 0 ELSE permission_set[1]
    IN  { n \in MemberNames \ {"NONE"} :
            PyAnd(permission_mask, MemberValue(n)) = MemberValue(n) }

\* The call of the permission functions in progress (none at first).
NoCall ==
    [ op |-> "none", is_superadmin |-> FALSE, role |-> "-",
      permission_set |-> NullInt, required |-> "NONE", status |-> 0,
      detail |-> "-", named |-> "-", names |-> {}, mask |-> 0, decoded |-> {},
      body |-> "-", full_key |-> << >>, key_prefix |-> << >>, owner |-> Null,
      user |-> NoUser ]

(***************************************************************************)
(* Roles and users of the tenants (user_roles and users tables).           *)
(***************************************************************************)
RoleIds ==
    {"r_admin1", "r_manager1", "r_viewer1", "r_admin2"}

UserIds ==
    {"u1", "u2", "u3", "u4", "u5"}

\* class UserRole.  The Admin role of a tenant is the one onboarding creates
\* (is_admin_role, TENANT_ADMIN_PERMISSIONS); Manager holds every permission
\* without the admin flag; Viewer holds USERS_READ only.
RoleRow(name, ps, admin, t) ==
    [name |-> name, permission_set |-> ps, is_admin_role |-> admin, tenant_id |-> t]

InitRoles ==
    [ r \in RoleIds |->
        IF r = "r_admin1" THEN RoleRow("Admin", <<MemberValue("TENANT_ADMIN_PERMISSIONS")>>, TRUE, "t1")
        ELSE IF r = "r_manager1" THEN RoleRow("Manager", <<MemberValue("TENANT_ADMIN_PERMISSIONS")>>, FALSE, "t1")
        ELSE IF r = "r_viewer1" THEN RoleRow("Viewer", <<MemberValue("USERS_READ")>>, FALSE, "t1")
        ELSE RoleRow("Admin", <<MemberValue("TENANT_ADMIN_PERMISSIONS")>>, TRUE, "t2") ]

\* class User.  Tenant t1 has two users with the Admin role, tenant t2 one;
\* u5 was invited by the superadmin and so carries no tenant_id.
UserRow(t, r) ==
    [tenant_id |-> t, role_id |-> r]

InitUsers ==
    [ u \in UserIds |->
        IF u = "u1" THEN UserRow("t1", "r_admin1")
        ELSE IF u = "u2" THEN UserRow("t2", "r_admin2")
        ELSE IF u = "u3" THEN UserRow("t1", "r_admin1")
        ELSE IF u = "u4" THEN UserRow("t1", "r_manager1")
        ELSE UserRow(Null, "r_viewer1") ]

\* The last request to the role and user endpoints and its answer.
NoResp ==
    [op |-> "none", actor |-> "-", target |-> "-", new_role |-> "-", amount |-> 0,
     status |-> 0, detail |-> "-"]

(***************************************************************************)
(* Plans and entitlements (class Plan, class PlanEntitlement): one         *)
(* entitlement per feature_slug and plan.                                  *)
(***************************************************************************)
MaxUsers ==
    4

MeterCap ==
    3

MaxInvites ==
    3

MaxUsageRecords ==
    1

Entitlement(type, value) ==
    [entitlement_type |-> type, value |-> value]

PlanEntitlements ==
    [ plan1 |-> [ max_users |-> Entitlement("LIMIT", MaxUsers),
                  api_calls |-> Entitlement("METER", MeterCap),
                  sso |-> Entitlement("FLAG", 1),
                  beta |-> Entitlement("FLAG", 0) ],
      plan2 |-> [ sso |-> Entitlement("FLAG", 2) ] ]

\* Feature slugs asked for; "reports" is in no plan.
Slugs ==
    {"max_users", "api_calls", "sso", "beta", "reports"}

\* Ids the identity provider hands to invited users.
InviteIds ==
    {"n1", "n2"}


VARIABLES
    tenants,          \* committed tenants table
    webhook_events,   \* committed webhook_events table (set of rows)
    now,              \* wall clock (func.now())
    deliveries,       \* number of webhook requests served
    last,             \* the last webhook request and its answer
    applied,          \* <<event, tenant>>: state-machine branch run and committed
    interrupted,      \* events with a delivery cut short during processing
    pool,             \* session-level settings of each pooled connection
    req,              \* the API request in flight
    call,             \* the permission function call and its result
    roles,            \* committed user_roles table
    users,            \* committed users table
    resp,             \* the last role / user / billing request and its answer
    usage_records,    \* committed usage_records table (sequence of rows)
    provider_invites, \* invite_user_by_email calls made to the identity provider
    checkout_sessions, \* committed checkout_sessions table (set of rows)
    procs             \* the requests served concurrently, one per worker

webhookVars ==
    <<tenants, webhook_events, now, deliveries, last, applied, interrupted>>

apiVars ==
    <<pool, req>>

permVars ==
    <<call>>

\* The variables each specification leaves alone.
adminVars ==
    <<roles, users, resp>>

billVars ==
    <<usage_records, provider_invites, checkout_sessions>>

procVars ==
    <<procs>>

outsideWebhook ==
    <<apiVars, permVars, adminVars, billVars, procVars>>

outsideApi ==
    <<webhookVars, permVars, adminVars, billVars, procVars>>

outsidePerm ==
    <<webhookVars, apiVars, adminVars, billVars, procVars>>

outsideAdmin ==
    <<webhookVars, apiVars, permVars, billVars, procVars>>

outsideBilling ==
    <<webhook_events, now, deliveries, last, applied, interrupted, apiVars, permVars,
      procVars>>

\* What the steps of the concurrent webhook deliveries leave alone.
outsideRace ==
    <<now, last, interrupted, apiVars, permVars, adminVars, billVars>>

\* What the steps of the concurrent invitations leave alone.
outsideInvite ==
    <<webhookVars, apiVars, permVars, roles, resp, usage_records, checkout_sessions>>

vars ==
    <<tenants, webhook_events, now, deliveries, last, applied, interrupted, pool, req,
      call, roles, users, resp, usage_records, provider_invites, checkout_sessions,
      procs>>

(***************************************************************************)
(* ORM flush of one tenant row: an UPDATE is emitted only when a column    *)
(* has a net change, and onupdate=func.now() then stamps updated_at.       *)
(***************************************************************************)
FlushTenant(old, new, clock) ==
    IF Core(new) = Core(old)
    THEN old
    ELSE [new EXCEPT !.updated_at = clock]

Returned(tn, t, new, clock, didApply) ==
    [ raised |-> "none",
      tenants |-> [tn EXCEPT ![t] = FlushTenant(tn[t], new, clock)],
      applied |-> IF didApply THEN {t} ELSE {} ]

Raised(tn, code) ==
    [raised |-> code, tenants |-> tn, applied |-> {}]

(***************************************************************************)
(* process_stripe_event                                                    *)
(*   sub       outcome of stripe.Subscription.retrieve: "ok", "error"      *)
(*             (the call raises), "no_price" (no price id in the object)   *)
(*             or "no_period_end" (no current_period_end in the object)    *)
(*   planFound whether a Plan row matches the price id                     *)
(***************************************************************************)
StripeIsCheckout(ev) ==
    ev.type = "checkout.session.completed"

\* lines 154-166: the tenant the event resolves to, Null when none.
StripeTenantOf(tn, ev) ==
    IF StripeIsCheckout(ev)
    THEN ev.ref
    ELSE IF ev.ref # Null /\ \E t \in Tenants : tn[t].external_customer_id = CustOf(ev.ref)
         THEN CHOOSE t \in Tenants : tn[t].external_customer_id = CustOf(ev.ref)
         ELSE Null

\* lines 168-172
StripeIsStale(t, ev) ==
    t.updated_at # NoTime /\ ev.ts < t.updated_at

\* lines 174-238: the tenant row after the state-machine branch.
StripeTransition(t, ev, sub, planFound) ==
    IF ev.type = "checkout.session.completed"
    THEN IF ev.detail = "subscription"
         THEN [t EXCEPT !.plan_id = IF planFound THEN PlanId ELSE Null,
                        !.subscription_status = "active",
                        !.external_subscription_id = SubOf(ev.ref),
                        !.external_customer_id = CustOf(ev.ref),
                        !.current_period_ends_at = IF sub = "no_period_end"
                                                   THEN @
                                                   ELSE ev.ts + PeriodLen]
         ELSE t
    ELSE IF ev.type = "invoice.payment_failed"
    THEN [t EXCEPT !.subscription_status = "past_due"]
    ELSE IF ev.type \in {"customer.subscription.deleted", "customer.subscription.updated"}
    THEN IF ev.detail = "cancel_at_period_end"
         THEN [t EXCEPT !.subscription_status = "canceled"]
         ELSE IF ev.detail \in {"canceled", "unpaid"}
              THEN [t EXCEPT !.subscription_status = "inactive"]
              ELSE t
    ELSE t

process_stripe_event(tn, ev, clock, sub, planFound) ==
    IF StripeIsCheckout(ev) /\ ev.ref = Null
    THEN Raised(tn, "http_400")
    ELSE IF StripeTenantOf(tn, ev) = Null
    THEN Raised(tn, "http_404")
    ELSE LET t == StripeTenantOf(tn, ev) IN
         IF StripeIsStale(tn[t], ev)
         THEN Returned(tn, t, tn[t], clock, FALSE)
         ELSE IF StripeIsCheckout(ev) /\ ev.detail = "no_ids"
         THEN Raised(tn, "http_400")
         ELSE IF StripeIsCheckout(ev) /\ ev.detail = "subscription" /\ sub = "error"
         THEN Raised(tn, "http_500")
         ELSE IF StripeIsCheckout(ev) /\ ev.detail = "subscription" /\ sub = "no_price"
         THEN Raised(tn, "http_400")
         ELSE Returned(tn, t, StripeTransition(tn[t], ev, sub, planFound), clock, TRUE)

(***************************************************************************)
(* process_event (Dodo)                                                    *)
(***************************************************************************)
\* lines 264-270: customer e-mail -> user -> tenant.
DodoTenantOf(ev) ==
    ev.ref

\* lines 272-277
DodoIsStale(t, ev) ==
    t.current_period_ends_at # NoTime /\ ev.ts < t.current_period_ends_at

\* lines 279-304
DodoTransition(t, ev) ==
    IF ev.type \in {"subscription.active", "subscription.renewed"}
    THEN [t EXCEPT !.plan_id = PlanId,
                   !.subscription_status = "active",
                   !.external_subscription_id = SubOf(ev.ref),
                   !.current_period_ends_at = ev.ts + PeriodLen]
    ELSE IF ev.type \in {"subscription.on_hold", "subscription.failed"}
    THEN [t EXCEPT !.subscription_status = "past_due"]
    ELSE IF ev.type \in {"subscription.cancelled", "subscription.expired"}
    THEN [t EXCEPT !.subscription_status = "inactive"]
    ELSE t

process_event(tn, ev, clock, planFound) ==
    IF ev.detail = "no_ids"
    THEN Raised(tn, "http_404")
    ELSE IF DodoTenantOf(ev) = Null
    THEN Raised(tn, "http_404")
    ELSE LET t == DodoTenantOf(ev) IN
         IF DodoIsStale(tn[t], ev)
         THEN Returned(tn, t, tn[t], clock, FALSE)
         ELSE IF ev.type \in {"subscription.active", "subscription.renewed"} /\ ~planFound
         THEN Raised(tn, "http_404")
         ELSE Returned(tn, t, DodoTransition(tn[t], ev), clock, TRUE)

(***************************************************************************)
(* The two webhook endpoints.  A handler maps the committed tables and one *)
(* request to the committed tables afterwards and the HTTP answer.         *)
(*   sig    "valid", "invalid" (verification fails) or "missing" (headers) *)
(*   fault  what the infrastructure does while the event is processed:     *)
(*          "none", "system_error" (an unexpected exception is raised) or  *)
(*          "crash" (the worker dies or times out; no answer is sent)      *)
(***************************************************************************)
Sigs ==
    {"valid", "invalid", "missing"}

Faults ==
    {"none", "system_error", "crash"}

SubOutcomes ==
    {"ok", "error", "no_price", "no_period_end"}

Answer(tn, rows, status, body, raised, app) ==
    [ tenants |-> tn, webhook_events |-> rows, status |-> status,
      body |-> body, raised |-> raised, applied |-> app ]

Is2xx(status) ==
    status \in 200..299

\* webhooks.py line 48: any existing row short-circuits.
DodoIsDuplicate(rows, ev) ==
    HasRow(rows, ev)

\* Variant: the HTTPException is re-raised instead of being answered.
DodoReraiseHTTPException(tn, rows, raised) ==
    Answer(tn, rows, 404, "error", raised, {})

\* webhooks.py lines 69-74: HTTPException -> rollback, answer with the
\* route's status code (202).
DodoOnHTTPException(tn, rows, raised) ==
    Answer(tn, rows, 202, "error", raised, {})

\* Variant: the writes of the processing are committed before the failure.
DodoOnExceptionKeepsWrites(tn, written, rows) ==
    Answer(written, rows, 500, "failed", "exception", {})

\* webhooks.py lines 75-81: any other exception -> rollback of the second
\* transaction (the row of lines 54-56 is already committed), answer 500.
DodoOnException(tn, written, rows) ==
    Answer(tn, rows, 500, "failed", "exception", {})

handle_dodo_webhook(tn, rows, ev, sig, clock, fault, planFound) ==
    IF sig # "valid"
    THEN Answer(tn, rows, 400, "rejected", "none", {})
    ELSE IF DodoIsDuplicate(rows, ev)
    THEN Answer(tn, rows, 202, "duplicate", "none", {})
    ELSE LET stored == rows \cup {NewRow(ev)}
             r == process_event(tn, ev, clock, planFound)
         IN  IF fault = "crash"
             THEN Answer(tn, stored, 0, "none", "crash", {})
             ELSE IF fault = "system_error"
             THEN DodoOnException(tn, r.tenants, stored)
             ELSE IF r.raised # "none"
             THEN DodoOnHTTPException(tn, stored, r.raised)
             ELSE Answer(r.tenants, PutRow(stored, ev, TRUE), 202, "processed",
                         "none", r.applied)

\* Variant: the idempotency check is skipped.
StripeNeverDuplicate(rows, ev) ==
    FALSE

\* webhooks.py lines 104-109: only a row marked successful short-circuits.
StripeIsDuplicate(rows, ev) ==
    HasRow(rows, ev) /\ RowOf(rows, ev).processed_successfully

\* webhooks.py lines 135-139: HTTPException -> rollback (the flushed row of
\* a new event goes with it), answer with the route's status code (200).
StripeOnHTTPException(tn, rows, raised) ==
    Answer(tn, rows, 200, "error", raised, {})

\* webhooks.py lines 93-96: the HTTPException of the verification is caught
\* and turned into a normal return, so the route's status code 200 applies.
StripeOnBadSignature(tn, rows) ==
    Answer(tn, rows, 200, "rejected", "none", {})

handle_stripe_webhook(tn, rows, ev, sig, clock, fault, sub, planFound) ==
    IF sig # "valid"
    THEN StripeOnBadSignature(tn, rows)
    ELSE IF StripeIsDuplicate(rows, ev)
    THEN Answer(tn, rows, 200, "duplicate", "none", {})
    ELSE LET r == process_stripe_event(tn, ev, clock, sub, planFound)
         IN  IF fault = "crash"
             THEN Answer(tn, rows, 0, "none", "crash", {})
             ELSE IF fault = "system_error"
             THEN Answer(tn, rows, 500, "failed", "exception", {})
             ELSE IF r.raised # "none"
             THEN StripeOnHTTPException(tn, rows, r.raised)
             ELSE Answer(r.tenants, PutRow(rows, ev, TRUE), 200, "processed",
                         "none", r.applied)

(***************************************************************************)
(* State machine of the webhook endpoints.                                 *)
(***************************************************************************)
NoEvent ==
    MkEvent("none", <<"-", "-">>, 0, Null)

NoDelivery ==
    [ev |-> NoEvent, sig |-> "valid", status |-> 0, body |-> "none", raised |-> "none"]

\* The workers that serve requests concurrently.
Pids ==
    {"p1", "p2"}

\* A worker with no request.
NoProc ==
    [ op |-> "none", pc |-> "idle", actor |-> Null, terms |-> FALSE, role |-> Null,
      ev |-> NoEvent, held |-> FALSE, tenant |-> Null, new |-> NewTenant,
      applied |-> FALSE, status |-> 0, body |-> "none", alone |-> TRUE ]

Init ==
    /\ tenants = [t \in Tenants |-> NewTenant]
    /\ webhook_events = {}
    /\ now = 0
    /\ deliveries = 0
    /\ last = NoDelivery
    /\ applied = {}
    /\ interrupted = {}
    /\ pool = [c \in 1..PoolSize |-> NoSettings]
    /\ req = Idle
    /\ call = NoCall
    /\ roles = InitRoles
    /\ users = InitUsers
    /\ resp = NoResp
    /\ usage_records = << >>
    /\ provider_invites = 0
    /\ checkout_sessions = {}
    /\ procs = [p \in Pids |-> NoProc]

Served(ev, sig, a) ==
    /\ tenants' = a.tenants
    /\ webhook_events' = a.webhook_events
    /\ last' = [ev |-> ev, sig |-> sig, status |-> a.status, body |-> a.body,
                raised |-> a.raised]
    /\ applied' = applied \cup {<<ev, t>> : t \in a.applied}
    /\ interrupted' = IF a.raised \in {"crash", "exception"}
                      THEN interrupted \cup {ev}
                      ELSE interrupted
    /\ deliveries' = deliveries + 1
    /\ UNCHANGED now
    /\ UNCHANGED outsideWebhook

\* The inputs a request can differ in: the lookups of the checkout and
\* activation branches are the only users of sub and planFound.
SubInputs(ev) ==
    IF ev.type = "checkout.session.completed" /\ ev.detail = "subscription"
    THEN SubOutcomes
    ELSE {"ok"}

PlanInputs(ev) ==
    IF ev.type \in {"checkout.session.completed", "subscription.active"}
    THEN BOOLEAN
    ELSE {TRUE}

\* POST /webhooks/dodo with a signature that verifies
DeliverDodo ==
    /\ deliveries < MaxDeliveries
    /\ \E ev \in DodoEvents, fault \in Faults :
         \E planFound \in PlanInputs(ev) :
           /\ ev.ts <= now
           /\ Served(ev, "valid", handle_dodo_webhook(tenants, webhook_events, ev,
                                     "valid", now, fault, planFound))

\* POST /webhooks/stripe with a signature that verifies
DeliverStripe ==
    /\ deliveries < MaxDeliveries
    /\ \E ev \in StripeEvents, fault \in Faults :
         \E sub \in SubInputs(ev), planFound \in PlanInputs(ev) :
           /\ ev.ts <= now
           /\ Served(ev, "valid", handle_stripe_webhook(tenants, webhook_events, ev,
                                     "valid", now, fault, sub, planFound))

\* The bodies sent without a valid signature: the request is refused before
\* the body is parsed, so one timestamp stands for all of them.
UnsignedEvents ==
    {ev \in Events : ev.ts = 1}

\* POST /webhooks/dodo or /webhooks/stripe with missing headers or a
\* signature that does not verify (anyone can send any body).
DeliverUnsigned ==
    /\ deliveries < MaxDeliveries
    /\ \E ev \in UnsignedEvents, sig \in Sigs \ {"valid"} :
         Served(ev, sig,
                IF ev.provider = "dodo"
                THEN handle_dodo_webhook(tenants, webhook_events, ev, sig, now,
                                         "none", TRUE)
                ELSE handle_stripe_webhook(tenants, webhook_events, ev, sig, now,
                                           "none", "ok", TRUE))

\* Time passes.
Tick ==
    /\ now < MaxTime
    /\ now' = now + 1
    /\ UNCHANGED <<tenants, webhook_events, deliveries, last, applied, interrupted>>
    /\ UNCHANGED outsideWebhook

Next ==
    \/ DeliverDodo
    \/ DeliverStripe
    \/ DeliverUnsigned
    \/ Tick

Spec ==
    Init /\ [][Next]_vars

(***************************************************************************)
(* Properties of the webhook endpoints.                                    *)
(***************************************************************************)
\* A step that serves one webhook request (recorded in last').
Delivery ==
    deliveries' = deliveries + 1

Processed(rows, ev) ==
    HasRow(rows, ev) /\ RowOf(rows, ev).processed_successfully

\* Whether the event's business processing would complete without raising.
Processable(ev) ==
    IF ev.provider = "dodo"
    THEN process_event(tenants, ev, now, TRUE).raised = "none"
    ELSE process_stripe_event(tenants, ev, now, "ok", TRUE).raised = "none"

\* C1: a delivery of an event id whose row is already marked
\* processed_successfully changes neither the tenants nor the webhook_events
\* table and is answered 2xx; and the delivery that marked the row was
\* answered 2xx too (one mutation, two acknowledgements).
DuplicateDeliveryIsNoOp ==
    [][ Delivery /\ last'.sig = "valid" =>
          /\ Processed(webhook_events, last'.ev) =>
                /\ tenants' = tenants
                /\ webhook_events' = webhook_events
                /\ Is2xx(last'.status)
          /\ (~Processed(webhook_events, last'.ev) /\ Processed(webhook_events', last'.ev)) =>
                Is2xx(last'.status)
      ]_vars

\* C1 witness: an event that changed its tenant has been delivered again and
\* acknowledged as a duplicate.
DuplicateDeliverySeen ==
    /\ last.body = "duplicate"
    /\ Is2xx(last.status)
    /\ Processed(webhook_events, last.ev)
    /\ \E t \in Tenants : <<last.ev, t>> \in applied /\ Core(tenants[t]) # Core(NewTenant)

\* C2: a delivery for an event id whose row exists with
\* processed_successfully = false is not short-circuited as a duplicate: the
\* business processing runs again, and the row is marked exactly when that
\* processing succeeds.
FailedRowIsReprocessed ==
    [][ (Delivery /\ last'.sig = "valid"
           /\ HasRow(webhook_events, last'.ev)
           /\ ~Processed(webhook_events, last'.ev)) =>
          /\ last'.body # "duplicate"
          /\ Processed(webhook_events', last'.ev) <=> (last'.body = "processed")
      ]_vars

\* C3: once an event E_new has been applied to a tenant, a later delivery of
\* an event E_old of the same provider with an earlier timestamp leaves the
\* tenant's subscription columns unchanged.
OlderEventNeverRegresses ==
    [][ (Delivery /\ last'.sig = "valid") =>
          \A t \in Tenants :
            (\E p \in applied : /\ p[2] = t
                                /\ p[1].provider = last'.ev.provider
                                /\ p[1].ts > last'.ev.ts)
            => Core(tenants'[t]) = Core(tenants[t])
      ]_vars

\* C4: a request whose signature does not verify, or whose signature headers
\* are missing, is answered 400 and changes no row of either table.
BadSignatureIsRejected ==
    [][ (Delivery /\ last'.sig # "valid") =>
          /\ last'.status = 400
          /\ webhook_events' = webhook_events
          /\ tenants' = tenants
      ]_vars

\* C5: when the business processing raises a business-logic failure (4xx
\* HTTPException: tenant not resolved, plan not found, identifiers missing)
\* the request is answered 2xx, every tenant is as before, and the event's
\* row is not marked processed_successfully.
BusinessFailureIsAcknowledged ==
    [][ (Delivery /\ last'.raised \in {"http_400", "http_404"}) =>
          /\ Is2xx(last'.status)
          /\ tenants' = tenants
          /\ ~Processed(webhook_events', last'.ev)
      ]_vars

\* C5 witness: a business failure was acknowledged after some tenant had
\* already been changed by an earlier event.
BusinessFailureSeen ==
    /\ last.raised \in {"http_400", "http_404"}
    /\ last.body = "error"
    /\ ~Processed(webhook_events, last.ev)
    /\ \E t \in Tenants : Core(tenants[t]) # Core(NewTenant)

\* C6: when processing fails for an unexpected/infrastructure reason
\* (including a failure to retrieve the subscription from the provider) the
\* tenants are as before and the answer is not 2xx.
SystemFailureIsNotAcknowledged ==
    [][ (Delivery /\ last'.raised \in {"http_500", "exception", "crash"}) =>
          /\ tenants' = tenants
          /\ ~Is2xx(last'.status)
      ]_vars

\* C7: when a delivery of a valid event was cut short after the dedup row
\* was stored, a redelivery of the same event id that meets no failure marks
\* the row processed_successfully (finite form of the convergence: the
\* redelivery is the step that has to do it).
RedeliveryConverges ==
    [][ (Delivery /\ last'.sig = "valid"
           /\ last'.ev \in interrupted
           /\ Processable(last'.ev)
           /\ last'.raised = "none") =>
          Processed(webhook_events', last'.ev)
      ]_vars

\* The columns of a tenant other than subscription_status and updated_at.
SameButStatus(new, old) ==
    [Core(new) EXCEPT !.subscription_status = "-"] =
        [Core(old) EXCEPT !.subscription_status = "-"]

\* C21: a Stripe event that is processed for a resolved tenant and is not
\* stale: checkout.session.completed in subscription mode sets
\* subscription_status 'active', plan_id, both external ids and
\* current_period_ends_at; invoice.payment_failed sets 'past_due';
\* customer.subscription.deleted/updated sets 'canceled' with
\* cancel_at_period_end and 'inactive' with status canceled or unpaid; every
\* other event leaves the tenant as it is and is acknowledged as processed.
StripeTransitionTable ==
    [][ (Delivery /\ last'.sig = "valid" /\ last'.ev.provider = "stripe"
         /\ ~Processed(webhook_events, last'.ev) /\ last'.raised = "none"
         /\ StripeTenantOf(tenants, last'.ev) # Null
         /\ ~(tenants[StripeTenantOf(tenants, last'.ev)].updated_at # NoTime
              /\ last'.ev.ts < tenants[StripeTenantOf(tenants, last'.ev)].updated_at)) =>
            LET ev == last'.ev
                t == StripeTenantOf(tenants, ev)
                old == tenants[t]
                new == tenants'[t]
            IN  /\ \A o \in Tenants \ {t} : tenants'[o] = tenants[o]
                /\ last'.body = "processed"
                /\ IF ev.type = "checkout.session.completed" /\ ev.detail = "subscription"
                   THEN /\ new.subscription_status = "active"
                        /\ new.plan_id \in {PlanId, Null}
                        /\ new.external_subscription_id = SubOf(t)
                        /\ new.external_customer_id = CustOf(t)
                        /\ new.current_period_ends_at = ev.ts + PeriodLen
                   ELSE IF ev.type = "invoice.payment_failed"
                   THEN new.subscription_status = "past_due" /\ SameButStatus(new, old)
                   ELSE IF /\ ev.type \in {"customer.subscription.deleted",
                                           "customer.subscription.updated"}
                           /\ ev.detail = "cancel_at_period_end"
                   THEN new.subscription_status = "canceled" /\ SameButStatus(new, old)
                   ELSE IF /\ ev.type \in {"customer.subscription.deleted",
                                           "customer.subscription.updated"}
                           /\ ev.detail \in {"canceled", "unpaid"}
                   THEN new.subscription_status = "inactive" /\ SameButStatus(new, old)
                   ELSE new = old ]_vars

\* What the business processing of an event writes when it returns.
ProcessingWrites(ev, tn) ==
    \E sub \in SubOutcomes, planFound \in BOOLEAN :
      LET r == IF ev.provider = "dodo"
               THEN process_event(tenants, ev, now, planFound)
               ELSE process_stripe_event(tenants, ev, now, sub, planFound)
      IN  r.raised = "none" /\ r.tenants = tn

\* C22: the processed_successfully flag of an event's row and the tenant
\* writes of that event are committed together by both handlers: a delivery
\* that changes a tenant is the one that turns the flag of its event to true,
\* a delivery that turns the flag to true commits exactly the writes of the
\* event's processing, and every event recorded as applied has its flag set.
FlagCommitsWithMutations ==
    [][ Delivery =>
          LET ev == last'.ev
              marked == ~Processed(webhook_events, ev) /\ Processed(webhook_events', ev)
          IN  /\ tenants' # tenants => marked
              /\ marked => ProcessingWrites(ev, tenants')
              /\ \A r \in webhook_events' :
                   r.id # ev => r \in webhook_events
              /\ \A p \in applied' : Processed(webhook_events', p[1])
      ]_vars

\* C22 witness: one delivery stored the row of a Dodo event and was cut
\* short (the row is committed with the flag false and no tenant write), and
\* another event was processed, its tenant write committed with its flag.
UnprocessedRowAndCommittedEvent ==
    /\ \E ev \in interrupted : HasRow(webhook_events, ev) /\ ~Processed(webhook_events, ev)
    /\ last.body = "processed"
    /\ Processed(webhook_events, last.ev)
    /\ \E t \in Tenants : <<last.ev, t>> \in applied /\ Core(tenants[t]) # Core(NewTenant)

\* C28: a tenant whose subscription_status is 'active' has a plan: plan_id
\* is not NULL.
ActiveTenantHasPlan ==
    \A t \in Tenants :
      tenants[t].subscription_status = "active" => tenants[t].plan_id # Null

\* The tenant a delivered event resolves to, Null when none.
TenantOfEvent(tn, ev) ==
    IF ev.provider = "dodo"
    THEN (IF ev.detail = "no_ids" THEN Null ELSE DodoTenantOf(ev))
    ELSE StripeTenantOf(tn, ev)

\* C27: an event whose timestamp is later than that of every event applied
\* to its tenant before is not skipped as stale: when its delivery is
\* answered as processed, its state-machine branch has been applied.
FreshEventNeverSkipped ==
    [][ (Delivery /\ last'.sig = "valid" /\ last'.body = "processed"
         /\ TenantOfEvent(tenants, last'.ev) # Null
         /\ \A p \in applied :
              p[2] = TenantOfEvent(tenants, last'.ev) => p[1].ts < last'.ev.ts) =>
            <<last'.ev, TenantOfEvent(tenants, last'.ev)>> \in applied'
      ]_vars

(***************************************************************************)
(* Session dependencies.  SET / RESET act on the open transaction of the   *)
(* connection (req.settings); commit makes them the connection's           *)
(* session-level values (pool[c]), rollback and close discard them.  The   *)
(* pool hands a connection back out as it was returned.                    *)
(***************************************************************************)
\* dependencies.py lines 47-58: identity of a verified token subject.
\* dependencies.py line 47; the variant also honours a claim of the token.
JwtIsSuperByClaim(cred) ==
    cred.sub = SuperadminId \/ cred.claims.role = "superadmin"

JwtIsSuper(cred) ==
    cred.sub = SuperadminId

\* dependencies.py lines 55-58
JwtUser(cred) ==
    [ id |-> cred.sub,
      tenant_id |-> IF HasProfile(cred.sub) THEN Profiles[cred.sub].tenant_id ELSE Null,
      is_superadmin |-> JwtIsSuper(cred) ]

\* dependencies.py lines 52-53
JwtProfileMissing(cred) ==
    ~JwtIsSuper(cred) /\ ~HasProfile(cred.sub)

\* dependencies.py lines 72-74
KeyPrefixToFind(api_key) ==
    "sk_live_" \o api_key.secret[1]

\* Variant: any row whose hash the key verifies against.
FindApiKeyByHash(api_key) ==
    { ApiKeys[p] : p \in { q \in DOMAIN ApiKeys : verify(api_key, ApiKeys[q].hashed_key) } }

\* dependencies.py line 76: the rows with that key_prefix (none or one).
FindApiKey(api_key) ==
    { ApiKeys[p] : p \in { q \in DOMAIN ApiKeys : q = KeyPrefixToFind(api_key) } }

\* dependencies.py lines 83-89: identity of the owner of an API key.
ApiKeyUser(sub) ==
    [id |-> sub, tenant_id |-> Profiles[sub].tenant_id, is_superadmin |-> FALSE]

\* dependencies.py lines 69-89: the identity of the key, or NoUser for 401.
api_key_lookup(api_key) ==
    LET found == FindApiKey(api_key)
        db_api_key == CHOOSE r \in found : TRUE
    IN  IF api_key.parts # 3 \/ api_key.scheme # "sk" \/ api_key.env # "live"
        THEN NoUser
        ELSE IF found = {} \/ ~verify(api_key, db_api_key.hashed_key)
        THEN NoUser
        ELSE IF ~HasProfile(db_api_key.user_id)
        THEN NoUser
        ELSE ApiKeyUser(db_api_key.user_id)

\* dependencies.py line 66
Elevate(g) ==
    [g EXCEPT !.is_superadmin = "true"]

\* Variant: the finally block does not reset the elevation.
ResetSkipped(g) ==
    g

\* dependencies.py lines 95-97: RESET app.is_superadmin
ResetSuperadmin(g) ==
    [g EXCEPT !.is_superadmin = Unset]

\* dependencies.py lines 103-109: the final context of the request; the
\* tenant id is SET only when the identity has one.
BindContext(g, user) ==
    [ is_superadmin |-> IF user.is_superadmin THEN "true" ELSE "false",
      current_user_id |-> user.id,
      current_tenant_id |-> IF user.tenant_id # Null
                            THEN user.tenant_id
                            ELSE g.current_tenant_id ]

\* dependencies.py lines 127-136
TermsRefused(user) ==
    /\ ~user.is_superadmin
    /\ (~HasProfile(user.id) \/ ~Profiles[user.id].terms_accepted)

CredsFor(route) ==
    IF route.session = "auth"
    THEN JwtCreds \cup ApiKeyCreds \cup {NoCred}
    ELSE {NoCred}

\* An exception leaves the dependency: db.rollback(), raise, db.close().
Abort(status) ==
    req' = [req EXCEPT !.pc = "failed", !.status = status,
                       !.settings = pool[req.conn]]

\* A request arrives; SessionLocal() takes any connection of the pool.
BeginRequest ==
    /\ req.pc = "idle"
    /\ \E route \in Routes, c \in 1..PoolSize :
         \E cred \in CredsFor(route) :
           req' = [ pc |-> "session", route |-> route, cred |-> cred, conn |-> c,
                    settings |-> pool[c], user |-> NoUser, status |-> 0 ]
    /\ UNCHANGED pool
    /\ UNCHANGED outsideApi

\* session.py get_db: the session is yielded as it is.
GetDb ==
    /\ req.pc = "session" /\ req.route.session = "db"
    /\ req' = [req EXCEPT !.pc = "business"]
    /\ UNCHANGED pool
    /\ UNCHANGED outsideApi

\* dependencies.py get_system_db_session, lines 266-270
GetSystemDbSession ==
    /\ req.pc = "session" /\ req.route.session = "system"
    /\ req' = [req EXCEPT !.pc = "business", !.settings = Elevate(req.settings)]
    /\ UNCHANGED pool
    /\ UNCHANGED outsideApi

\* get_auth_rls_session, lines 100-101: neither credential is present.
AuthNone ==
    /\ req.pc = "session" /\ req.route.session = "auth" /\ req.cred.kind = "none"
    /\ Abort(401)
    /\ UNCHANGED pool
    /\ UNCHANGED outsideApi

\* get_auth_rls_session, lines 37-58: bearer token.
AuthJwt ==
    /\ req.pc = "session" /\ req.route.session = "auth" /\ req.cred.kind = "jwt"
    /\ IF req.cred.case = "invalid"
       THEN Abort(401)
       ELSE IF JwtProfileMissing(req.cred)
       THEN Abort(404)
       ELSE req' = [req EXCEPT !.pc = "bind",
                               !.settings = [req.settings EXCEPT
                                               !.current_user_id = req.cred.sub],
                               !.user = JwtUser(req.cred)]
    /\ UNCHANGED pool
    /\ UNCHANGED outsideApi

\* get_auth_rls_session, lines 64-66: the lookup block is entered elevated.
AuthApiKeyElevate ==
    /\ req.pc = "session" /\ req.route.session = "auth" /\ req.cred.kind = "api_key"
    /\ req' = [req EXCEPT !.pc = "lookup", !.settings = Elevate(req.settings)]
    /\ UNCHANGED pool
    /\ UNCHANGED outsideApi

\* get_auth_rls_session, lines 68-97: the lookups, then the finally block;
\* a failed lookup raises 401 through the finally block.
AuthApiKeyLookup ==
    /\ req.pc = "lookup"
    /\ IF api_key_lookup(req.cred.key) # NoUser
       THEN req' = [req EXCEPT !.pc = "bind",
                               !.settings = ResetSuperadmin(req.settings),
                               !.user = api_key_lookup(req.cred.key)]
       ELSE req' = [req EXCEPT !.pc = "unwind", !.status = 401,
                               !.settings = ResetSuperadmin(req.settings)]
    /\ UNCHANGED pool
    /\ UNCHANGED outsideApi

\* get_auth_rls_session, lines 114-118: the 401 of the lookup block reaches
\* the outer handler.
AuthApiKeyUnwind ==
    /\ req.pc = "unwind"
    /\ Abort(req.status)
    /\ UNCHANGED pool
    /\ UNCHANGED outsideApi

\* get_auth_rls_session, lines 103-111: bind the context and yield.
AuthBind ==
    /\ req.pc = "bind"
    /\ req' = [req EXCEPT !.pc = IF req.route.terms THEN "terms" ELSE "business",
                          !.settings = BindContext(req.settings, req.user)]
    /\ UNCHANGED pool
    /\ UNCHANGED outsideApi

\* require_terms_accepted (reached through get_current_user)
TermsCheck ==
    /\ req.pc = "terms"
    /\ IF TermsRefused(req.user)
       THEN Abort(403)
       ELSE req' = [req EXCEPT !.pc = "business"]
    /\ UNCHANGED pool
    /\ UNCHANGED outsideApi

\* The route function runs its queries on the yielded session.
Business ==
    /\ req.pc = "business"
    /\ req' = [req EXCEPT !.pc = "exit", !.status = 200]
    /\ UNCHANGED pool
    /\ UNCHANGED outsideApi

\* The dependency resumes after the yield: get_auth_rls_session and
\* get_system_db_session commit (the RESET ALL of the latter runs in a new
\* transaction that close() rolls back); get_db only closes.
SessionExit ==
    /\ req.pc = "exit"
    /\ pool' = IF req.route.session = "db"
               THEN pool
               ELSE [pool EXCEPT ![req.conn] = req.settings]
    /\ req' = [Idle EXCEPT !.status = req.status]
    /\ UNCHANGED outsideApi

\* The failed request is answered (the idle state keeps the status sent) and
\* its connection is back in the pool.
Release ==
    /\ req.pc = "failed"
    /\ req' = [Idle EXCEPT !.status = req.status]
    /\ UNCHANGED pool
    /\ UNCHANGED outsideApi

NextApi ==
    \/ BeginRequest
    \/ GetDb
    \/ GetSystemDbSession
    \/ AuthNone
    \/ AuthJwt
    \/ AuthApiKeyElevate
    \/ AuthApiKeyLookup
    \/ AuthApiKeyUnwind
    \/ AuthBind
    \/ TermsCheck
    \/ Business
    \/ SessionExit
    \/ Release

SpecApi ==
    Init /\ [][NextApi]_vars

(***************************************************************************)
(* Properties of the request dependency chain.                             *)
(***************************************************************************)
\* The value each setting has when derived from the request's own identity.
OwnSuperadmin ==
    IF req.route.session = "system" THEN {"true"}
    ELSE IF req.route.session = "db" THEN {}
    ELSE {IF req.user.is_superadmin THEN "true" ELSE "false"}

OwnUserId ==
    IF req.route.session = "auth" THEN {req.user.id} ELSE {}

OwnTenantId ==
    IF req.route.session = "auth" /\ req.user.tenant_id # Null
    THEN {req.user.tenant_id}
    ELSE {}

\* C8: when the business logic of a request runs, each of app.is_superadmin,
\* app.current_user_id and app.current_tenant_id on its connection is the
\* value derived from the request's own identity or is unset.
ContextNeverLeaks ==
    req.pc = "business" =>
        /\ req.settings.is_superadmin \in OwnSuperadmin \cup {Unset}
        /\ req.settings.current_user_id \in OwnUserId \cup {Unset}
        /\ req.settings.current_tenant_id \in OwnTenantId \cup {Unset}

\* C9: in an API-key request the elevation of the lookup block is gone on
\* leaving the block, whichever way it is left, and app.is_superadmin is
\* 'false' from the yield on.
ApiKeyElevationReverted ==
    req.cred.kind = "api_key" =>
        /\ req.pc \in {"bind", "unwind"} => req.settings.is_superadmin # "true"
        /\ req.pc \in {"terms", "business", "exit"} =>
              req.settings.is_superadmin = "false"

\* C9 witness: an API-key request runs its business logic on a connection
\* that an earlier superadmin request had left elevated.
ApiKeyBusinessSeen ==
    /\ req.cred.kind = "api_key"
    /\ req.pc = "business"
    /\ pool[req.conn].is_superadmin = "true"
    /\ req.settings.is_superadmin = "false"

\* C10: on an authenticated route the business logic never runs for a
\* non-superadmin user who has not accepted the terms.
TermsGateCoversAllRoutes ==
    (req.pc = "business" /\ req.route.session = "auth") =>
        ~TermsRefused(req.user)

(***************************************************************************)
(* SpecPerm: the permission functions applied to every input of the model. *)
Authenticated ==
    req.pc \in {"bind", "terms", "business", "exit"}

\* C19: a bearer token resolves to is_superadmin = (sub is the configured
\* superadmin id) and tenant_id = the tenant_id of the stored profile (null
\* without a profile), so two valid tokens with the same subject and
\* different other claims resolve alike; a subject that is not the
\* superadmin and has no profile is answered 404.
BearerIdentityFromSubject ==
    /\ \A c1, c2 \in JwtCreds :
          (c1.case = "ok" /\ c2.case = "ok" /\ c1.sub = c2.sub) =>
              /\ JwtUser(c1).is_superadmin = JwtUser(c2).is_superadmin
              /\ JwtUser(c1).tenant_id = JwtUser(c2).tenant_id
    /\ (req.cred.kind = "jwt" /\ req.cred.case = "ok") =>
          /\ Authenticated =>
                /\ req.user.is_superadmin = (req.cred.sub = SuperadminId)
                /\ req.user.tenant_id = IF req.cred.sub \in DOMAIN Profiles
                                        THEN Profiles[req.cred.sub].tenant_id ELSE Null
                /\ req.cred.sub = SuperadminId \/ req.cred.sub \in DOMAIN Profiles
          /\ (req.pc = "failed" /\ req.cred.sub # SuperadminId
              /\ req.cred.sub \notin DOMAIN Profiles) => req.status = 404

\* A token of user u1 that carries a superadmin role claim runs a route as
\* the plain user of tenant t1.
RoleClaimIgnoredSeen ==
    /\ req.pc = "business"
    /\ req.cred.kind = "jwt"
    /\ req.cred.sub = "u1"
    /\ req.cred.claims.role = "superadmin"
    /\ ~req.user.is_superadmin
    /\ req.user.tenant_id = "t1"

\* C20: an API key is checked against the one record whose key_prefix is
\* the prefix derived from the key: a well-formed key with no such record,
\* or whose secret does not verify against that record's hash, is answered
\* 401 and never authenticated, whatever other record it verifies against.
ApiKeyCheckedAgainstPrefixRecord ==
    (/\ req.cred.kind = "api_key"
     /\ req.cred.key.parts = 3 /\ req.cred.key.scheme = "sk" /\ req.cred.key.env = "live"
     /\ \/ KeyPrefixToFind(req.cred.key) \notin DOMAIN ApiKeys
        \/ ApiKeys[KeyPrefixToFind(req.cred.key)].hashed_key # Hash(req.cred.key)) =>
        /\ ~Authenticated
        /\ req.pc \in {"unwind", "failed"} => req.status = 401

\* The key whose prefix is that of u1's record and whose hash is stored in
\* another record was refused.
WrongSecretRefusedSeen ==
    /\ req.pc = "failed"
    /\ req.status = 401
    /\ req.cred.kind = "api_key"
    /\ KeyPrefixToFind(req.cred.key) \in DOMAIN ApiKeys
    /\ \E p \in DOMAIN ApiKeys : /\ p # KeyPrefixToFind(req.cred.key)
                                 /\ verify(req.cred.key, ApiKeys[p].hashed_key)

(***************************************************************************)
Allowed ==
    [status |-> 200, detail |-> "-", named |-> "-"]

Forbidden(detail, named) ==
    [status |-> 403, detail |-> detail, named |-> named]

\* The profile of the caller as permission_checker re-fetches it: no row,
\* a row without a role, or a row whose role has the given permission_set.
RoleInputs ==
    { [role |-> r, permission_set |-> NullInt] : r \in {"no_profile", "no_role"} }
    \cup { [role |-> "role", permission_set |-> ps] : ps \in PermissionSets }

\* line 170: (current_permissions & required.value) == required.value
HasAnyPermission(current_permissions, required) ==
    PyAnd(current_permissions, MemberValue(required)) # 0

HasPermission(current_permissions, required) ==
    PyAnd(current_permissions, MemberValue(required)) = MemberValue(required)

\* require_permission(required_permission) -> permission_checker
permission_checker(is_superadmin, profile, required_permission) ==
    IF is_superadmin
    THEN Allowed
    ELSE IF profile.role # "role"
    THEN Forbidden("no_role", "-")
    ELSE LET current_permissions ==
                 IF profile.permission_set = NullInt THEN 0 ELSE profile.permission_set[1]
         IN  IF ~HasPermission(current_permissions, required_permission)
             THEN Forbidden("lacks", required_permission)
             ELSE Allowed

\* A request reaches a route guarded by require_permission(P).
RequirePermission ==
    /\ call.op = "none"
    /\ \E su \in BOOLEAN, profile \in RoleInputs, P \in MemberNames :
         LET r == permission_checker(su, profile, P)
         IN  call' = [NoCall EXCEPT !.op = "require_permission",
                                    !.is_superadmin = su,
                                    !.role = profile.role,
                                    !.permission_set = profile.permission_set,
                                    !.required = P,
                                    !.status = r.status,
                                    !.detail = r.detail,
                                    !.named = r.named]
    /\ UNCHANGED outsidePerm

\* The answer of an items route: body is "items" when it carries item data.
ItemsAnswer(status, body) ==
    [status |-> status, body |-> body]

\* items.py lines 39-64: _permission_check has require_permission(...) as
\* its default value without Depends, so it is an optional query parameter
\* and permission_checker is never called; the rows RLS lets through are
\* returned.
get_all_items(is_superadmin, profile) ==
    ItemsAnswer(200, "items")

\* items.py lines 66-87: Depends(require_permission(ITEMS_READ)) runs before
\* the body; found: whether the item is visible to the caller.
get_item(is_superadmin, profile, found) ==
    IF permission_checker(is_superadmin, profile, "ITEMS_READ").status # 200
    THEN ItemsAnswer(403, "-")
    ELSE IF ~found
    THEN ItemsAnswer(404, "-")
    ELSE ItemsAnswer(200, "items")

ItemsCall(op, su, profile, r) ==
    call' = [NoCall EXCEPT !.op = op,
                           !.is_superadmin = su,
                           !.role = profile.role,
                           !.permission_set = profile.permission_set,
                           !.required = "ITEMS_READ",
                           !.status = r.status,
                           !.body = r.body]

\* GET /items
ListItems ==
    /\ call.op = "none"
    /\ \E su \in BOOLEAN, profile \in RoleInputs :
         ItemsCall("get_all_items", su, profile, get_all_items(su, profile))
    /\ UNCHANGED outsidePerm

\* GET /items/{item_id}
GetItem ==
    /\ call.op = "none"
    /\ \E su \in BOOLEAN, profile \in RoleInputs, found \in BOOLEAN :
         ItemsCall("get_item", su, profile, get_item(su, profile, found))
    /\ UNCHANGED outsidePerm

(***************************************************************************)
(* API keys as strings (sequences of characters).                          *)
(***************************************************************************)
\* Length of the secret part (secrets.token_urlsafe(32) gives 43 characters).
SecretLen ==
    3

\* Number of leading characters of the secret kept as prefix (8 in the code).
PrefixLen ==
    2

\* Characters of the URL-safe base64 alphabet: letters and digits stand
\* behind "a" and "b"; "-" and "_" are the two symbols of the alphabet.
KeyAlphabet ==
    {"a", "b", "-", "_"}

\* The secrets the generator can return.
Secrets ==
    [1..SecretLen -> KeyAlphabet]

SkLive ==
    <<"s", "k", "_", "l", "i", "v", "e", "_">>

\* str.split(sep)
RECURSIVE Split(_, _)
Split(str, sep) ==
    IF \A i \in 1..Len(str) : str[i] # sep
    THEN <<str>>
    ELSE LET i == CHOOSE k \in 1..Len(str) :
                      str[k] = sep /\ \A j \in 1..(k - 1) : str[j] # sep
         IN  <<SubSeq(str, 1, i - 1)>> \o Split(SubSeq(str, i + 1, Len(str)), sep)

\* str[:n]
Take(str, n) ==
    SubSeq(str, 1, IF Len(str) < n THEN Len(str) ELSE n)

\* api_key_crud.create_api_key: the stored row and the key handed out.
create_api_key(secret, user_id) ==
    LET full_key == SkLive \o secret
        prefix == Take(Split(full_key, "_")[3], PrefixLen)
    IN  [ full_key |-> full_key,
          key_prefix |-> SkLive \o prefix,
          hashed_key |-> Hash(full_key),
          user_id |-> user_id ]

\* dependencies.py lines 69-89 on the key as a string; rows: the api_keys
\* table.  NoUser stands for the 401 answers.
api_key_auth(api_key, rows) ==
    LET parts == Split(api_key, "_") IN
    IF Len(parts) # 3 \/ parts[1] # <<"s", "k">> \/ parts[2] # <<"l", "i", "v", "e">>
    THEN NoUser
    ELSE LET key_prefix_to_find == SkLive \o Take(parts[3], PrefixLen)
             found == {r \in rows : r.key_prefix = key_prefix_to_find}
         IN  IF found = {} \/ ~verify(api_key, (CHOOSE r \in found : TRUE).hashed_key)
             THEN NoUser
             ELSE IF ~HasProfile((CHOOSE r \in found : TRUE).user_id)
             THEN NoUser
             ELSE ApiKeyUser((CHOOSE r \in found : TRUE).user_id)

\* POST /api-keys: a key is generated for one of the users and handed out.
CreateApiKey ==
    /\ call.op = "none"
    /\ \E secret \in Secrets, u \in DOMAIN Profiles :
         LET k == create_api_key(secret, u)
         IN  call' = [NoCall EXCEPT !.op = "create_api_key",
                                    !.full_key = k.full_key,
                                    !.key_prefix = k.key_prefix,
                                    !.owner = u]
    /\ UNCHANGED outsidePerm

\* A request presents the key just handed out while its record exists.
UseApiKey ==
    /\ call.op = "create_api_key"
    /\ LET row == [key_prefix |-> call.key_prefix, hashed_key |-> Hash(call.full_key),
                   user_id |-> call.owner]
           user == api_key_auth(call.full_key, {row})
       IN  call' = [call EXCEPT !.op = "api_key_auth",
                                !.user = user,
                                !.status = IF user = NoUser THEN 401 ELSE 200]
    /\ UNCHANGED outsidePerm

\* Role creation: the validated names are encoded into permission_set.
EncodeRole ==
    /\ call.op = "none"
    /\ \E S \in SUBSET MemberNames :
         call' = [NoCall EXCEPT !.op = "create_role",
                                !.names = S,
                                !.mask = to_permission_set_int(S)]
    /\ UNCHANGED outsidePerm

\* The role is serialised with RoleRead: permission_set is decoded.
ReadRole ==
    /\ call.op = "create_role"
    /\ call' = [call EXCEPT !.op = "read_role",
                            !.decoded = RoleReadPermissions(<<call.mask>>)]
    /\ UNCHANGED outsidePerm

\* The answer has been sent.
ReturnCall ==
    /\ call.op \in {"require_permission", "read_role", "get_all_items", "get_item",
                  "api_key_auth"}
    /\ call' = NoCall
    /\ UNCHANGED outsidePerm

NextPerm ==
    \/ RequirePermission
    \/ ListItems
    \/ GetItem
    \/ CreateApiKey
    \/ UseApiKey
    \/ EncodeRole
    \/ ReadRole
    \/ ReturnCall

SpecPerm ==
    Init /\ [][NextPerm]_vars

\* Bit k of an integer in two's complement, by division.
BitIsSet(x, k) ==
    IF x >= 0
    THEN (x \div Pow2(k)) % 2 = 1
    ELSE (((0 - x) - 1) \div Pow2(k)) % 2 = 0

HoldsAllBits(ps, P) ==
    \A k \in 0..NumPermissions : BitIsSet(MemberValue(P), k) => BitIsSet(ps, k)

\* C11: require_permission(P) allows the request iff the identity is
\* superadmin or the profile has a role whose permission_set (NULL counting
\* as 0) holds every bit of P; without a role the answer is 403, and with a
\* missing bit it is 403 naming P.
RequirePermissionContract ==
    call.op = "require_permission" =>
        LET ps == IF call.permission_set = NullInt THEN 0 ELSE call.permission_set[1]
            hasRole == call.role = "role"
            ok == call.is_superadmin \/ (hasRole /\ HoldsAllBits(ps, call.required))
        IN  /\ (call.status = 200) <=> ok
            /\ ~ok => call.status = 403
            /\ (~call.is_superadmin /\ ~hasRole) => call.detail = "no_role"
            /\ (~call.is_superadmin /\ hasRole /\ ~ok) =>
                   (call.detail = "lacks" /\ call.named = call.required)

\* A role holding some but not all bits is refused the combined permission,
\* and a negative permission_set has been checked.
RequirePermissionRefusedSeen ==
    /\ call.op = "require_permission"
    /\ call.required = "TENANT_ADMIN_PERMISSIONS"
    /\ call.role = "role"
    /\ call.permission_set # NullInt
    /\ call.permission_set[1] > 0
    /\ call.status = 403
    /\ call.named = "TENANT_ADMIN_PERMISSIONS"

\* C14: encoding a set of accepted permission names and decoding the result
\* yields exactly the names of the set.
PermissionRoundTrip ==
    call.op = "read_role" => call.decoded = call.names

\* C26: every key create_api_key hands out is accepted by the API-key
\* authentication while its record exists and resolves to the user and
\* tenant it was created for, and the stored key_prefix is the prefix the
\* authentication derives from the key.
ApiKeyRoundTrip ==
    call.op = "api_key_auth" =>
        /\ call.status = 200
        /\ call.user = ApiKeyUser(call.owner)
        /\ call.key_prefix = SkLive \o Take(Split(call.full_key, "_")[3], PrefixLen)

\* The same for the keys whose secret holds no underscore.
ApiKeyRoundTripWithoutUnderscore ==
    (call.op = "api_key_auth" /\ Len(Split(call.full_key, "_")) = 3) =>
        ApiKeyRoundTrip

\* C30: on the list-items and get-item routes a caller who is not superadmin
\* and whose role lacks ITEMS_READ (or who has no role) is answered 403 and
\* receives no item data.
ItemsReadEnforced ==
    (/\ call.op \in {"get_all_items", "get_item"}
     /\ ~call.is_superadmin
     /\ \/ call.role # "role"
        \/ ~HoldsAllBits(IF call.permission_set = NullInt THEN 0
                         ELSE call.permission_set[1], "ITEMS_READ")) =>
        /\ call.status = 403
        /\ call.body # "items"

\* The same property of the get-item route alone.
GetItemReadEnforced ==
    call.op = "get_item" => ItemsReadEnforced

(***************************************************************************)
(* SpecAdmin: the role and user management endpoints                       *)
(* (app/api/v1/routers/roles.py, app/api/v1/routers/users.py).  Callers    *)
(* are authenticated identities that have accepted the terms.              *)
(***************************************************************************)
Actors ==
    UserIds \cup {SuperadminId}

ActorIsSuperadmin(a) ==
    a = SuperadminId

ActorTenant(us, a) ==
    IF a \in DOMAIN us THEN us[a].tenant_id ELSE Null

\* The rows the session of the caller can see: those of the caller's tenant,
\* every row for the superadmin, and the caller's own users row.
VisibleRole(rs, us, a, r) ==
    /\ r \in DOMAIN rs
    /\ \/ ActorIsSuperadmin(a)
       \/ (ActorTenant(us, a) # Null /\ rs[r].tenant_id = ActorTenant(us, a))

VisibleUser(us, a, u) ==
    /\ u \in DOMAIN us
    /\ \/ ActorIsSuperadmin(a)
       \/ u = a
       \/ (ActorTenant(us, a) # Null /\ us[u].tenant_id = ActorTenant(us, a))

\* lines 165-167: the caller re-fetched with its role.
ProfileOfActor(rs, us, a) ==
    IF a \notin DOMAIN us
    THEN [role |-> "no_profile", permission_set |-> NullInt]
    ELSE IF us[a].role_id \notin DOMAIN rs
    THEN [role |-> "no_role", permission_set |-> NullInt]
    ELSE [role |-> "role", permission_set |-> rs[us[a].role_id].permission_set]

\* permission_checker has no return statement with a value, so a parameter
\* declared as current_user = Depends(require_permission(P)) receives None.
permission_checker_value ==
    Null

Outcome(rs, us, status, detail) ==
    [roles |-> rs, users |-> us, status |-> status, detail |-> detail]

Restrict(f, keep) ==
    [x \in keep |-> f[x]]

\* crud/role_crud.py update_role: only the fields present in the payload.
update_role(db_role, payload) ==
    [db_role EXCEPT !.name = IF payload.name = Null THEN @ ELSE payload.name,
                    !.permission_set = IF payload.permissions = << >> THEN @
                                       ELSE <<to_permission_set_int(payload.permissions[1])>>]

\* schemas/role_schemas.py RoleUpdate: both fields optional; permissions is
\* << >> when absent and <<names>> when given.
RolePayloads ==
    { [name |-> n, permissions |-> ps] :
        n \in {Null, "Renamed"}, ps \in {<< >>, <<{}>>, <<{"USERS_READ", "USERS_INVITE"}>>} }

\* PUT /roles/{role_id}
update_existing_role(rs, us, a, role_id, payload) ==
    LET perm == permission_checker(ActorIsSuperadmin(a), ProfileOfActor(rs, us, a), "ROLES_UPDATE")
    IN  IF perm.status # 200
        THEN Outcome(rs, us, perm.status, perm.detail)
        ELSE IF ~VisibleRole(rs, us, a, role_id)
        THEN Outcome(rs, us, 404, "Role not found.")
        ELSE IF rs[role_id].is_admin_role
        THEN Outcome(rs, us, 403, "Admin role permissions cannot be updated via this endpoint.")
        ELSE IF permission_checker_value = Null
        THEN Outcome(rs, us, 500, "AttributeError")
        ELSE Outcome([rs EXCEPT ![role_id] = update_role(rs[role_id], payload)], us, 200, "-")

\* lines 96-97 of roles.py
DeleteRefusesAdminRole(db_role) ==
    db_role.is_admin_role

\* The route calls role_crud.delete_role(db=db, db_item=db_role) while the
\* function is declared delete_role(db, db_role): the call raises TypeError
\* before the body runs, so no row is deleted.
delete_role_unchecked(rs, role_id) ==
    [status |-> 204, detail |-> "-", roles |-> Restrict(rs, DOMAIN rs \ {role_id})]

delete_role(rs, role_id) ==
    [status |-> 500, detail |-> "TypeError", roles |-> rs]

\* DELETE /roles/{role_id}
delete_existing_role(rs, us, a, role_id) ==
    LET perm == permission_checker(ActorIsSuperadmin(a), ProfileOfActor(rs, us, a), "ROLES_DELETE")
        done == delete_role(rs, role_id)
    IN  IF perm.status # 200
        THEN Outcome(rs, us, perm.status, perm.detail)
        ELSE IF ~VisibleRole(rs, us, a, role_id)
        THEN Outcome(rs, us, 404, "Role not found.")
        ELSE IF DeleteRefusesAdminRole(rs[role_id])
        THEN Outcome(rs, us, 403, "Admin role cannot be deleted.")
        ELSE IF \E u \in DOMAIN us : VisibleUser(us, a, u) /\ us[u].role_id = role_id
        THEN Outcome(rs, us, 400, "Cannot delete role while users are assigned to it.")
        ELSE Outcome(done.roles, us, done.status, done.detail)

\* PUT /users/{user_id}: the first statement reads current_user.id.
update_user_profile(rs, us, a, user_id, role_id) ==
    LET perm == permission_checker(ActorIsSuperadmin(a), ProfileOfActor(rs, us, a), "USERS_UPDATE_ROLE")
    IN  IF perm.status # 200
        THEN Outcome(rs, us, perm.status, perm.detail)
        ELSE IF permission_checker_value = Null
        THEN Outcome(rs, us, 500, "AttributeError")
        ELSE Outcome(rs, us, 500, "TypeError")

\* DELETE /users/{user_id}
delete_user_from_tenant(rs, us, a, user_id) ==
    LET perm == permission_checker(ActorIsSuperadmin(a), ProfileOfActor(rs, us, a), "USERS_DELETE")
    IN  IF perm.status # 200
        THEN Outcome(rs, us, perm.status, perm.detail)
        ELSE IF user_id = a
        THEN Outcome(rs, us, 400, "Admins cannot delete themselves.")
        ELSE IF ~VisibleUser(us, a, user_id)
        THEN Outcome(rs, us, 404, "User not found.")
        ELSE Outcome(rs, Restrict(us, DOMAIN us \ {user_id}), 204, "-")

\* get_auth_rls_session: commit when the route returns, rollback when it raises.
Answered(op, a, target, new_role, out) ==
    /\ roles' = IF out.status < 400 THEN out.roles ELSE roles
    /\ users' = IF out.status < 400 THEN out.users ELSE users
    /\ resp' = [op |-> op, actor |-> a, target |-> target, new_role |-> new_role,
                amount |-> 0, status |-> out.status, detail |-> out.detail]
    /\ UNCHANGED outsideAdmin

\* Callers are identities with a profile, or the superadmin.
Callers ==
    (DOMAIN users) \cup {SuperadminId}

UpdateRole ==
    \E a \in Callers, r \in RoleIds, payload \in RolePayloads :
        Answered("update_role", a, r, "-", update_existing_role(roles, users, a, r, payload))

DeleteRole ==
    \E a \in Callers, r \in RoleIds :
        Answered("delete_role", a, r, "-", delete_existing_role(roles, users, a, r))

UpdateUserRole ==
    \E a \in Callers, u \in UserIds, r \in RoleIds :
        Answered("update_user", a, u, r, update_user_profile(roles, users, a, u, r))

DeleteUser ==
    \E a \in Callers, u \in UserIds :
        Answered("delete_user", a, u, "-", delete_user_from_tenant(roles, users, a, u))

NextAdmin ==
    \/ UpdateRole
    \/ DeleteRole
    \/ UpdateUserRole
    \/ DeleteUser

SpecAdmin ==
    Init /\ [][NextAdmin]_vars

\* C12: through role update and role delete requests a role flagged
\* is_admin_role is never deleted and keeps its name and permission_set, a
\* role is never deleted while a user references it, and a refused request
\* leaves all roles unchanged.
AdminRolesAreProtected ==
    [][ /\ \A r \in DOMAIN roles :
             roles[r].is_admin_role =>
                 /\ r \in DOMAIN roles'
                 /\ roles'[r].name = roles[r].name
                 /\ roles'[r].permission_set = roles[r].permission_set
        /\ \A r \in (DOMAIN roles) \ (DOMAIN roles') :
             ~ \E u \in DOMAIN users : users[u].role_id = r
        /\ (roles' # roles) => resp'.status < 400 ]_vars

\* The deletion of an Admin role by a holder of ROLES_DELETE was refused
\* after users of the tenant had been removed.
AdminRoleDeleteRefused ==
    /\ resp.op = "delete_role"
    /\ resp.target \in DOMAIN roles
    /\ roles[resp.target].is_admin_role
    /\ resp.status = 403
    /\ resp.detail = "Admin role cannot be deleted."
    /\ DOMAIN users # UserIds

\* Users of the tenant of u that hold an admin-flagged role.
AdminUsersOf(rs, us, t) ==
    { u \in DOMAIN us : /\ us[u].tenant_id = t
                        /\ us[u].role_id \in DOMAIN rs
                        /\ rs[us[u].role_id].is_admin_role }

\* A permitted request to move a user from an admin-flagged role to a
\* non-admin role of the same tenant.
IsDemotion(rs, us, a, u, r) ==
    /\ a # u
    /\ permission_checker(ActorIsSuperadmin(a), ProfileOfActor(rs, us, a),
                          "USERS_UPDATE_ROLE").status = 200
    /\ VisibleUser(us, a, u)
    /\ VisibleRole(rs, us, a, r)
    /\ u \in AdminUsersOf(rs, us, us[u].tenant_id)
    /\ ~rs[r].is_admin_role

\* C13: demoting the only admin-flagged user of a tenant fails with a
\* descriptive error and changes nothing; with two or more such users the
\* update succeeds and changes only that user's role_id.
LastAdminSafeguard ==
    [][ (resp'.op = "update_user" /\ resp' # resp
         /\ IsDemotion(roles, users, resp'.actor, resp'.target, resp'.new_role)) =>
            LET u == resp'.target
                admins == AdminUsersOf(roles, users, users[u].tenant_id)
            IN  IF Cardinality(admins) <= 1
                THEN /\ resp'.status \in 400..499
                     /\ users' = users
                ELSE /\ resp'.status = 200
                     /\ users' = [users EXCEPT ![u].role_id = resp'.new_role] ]_vars

\* C29: a role-change or user-delete request of a user who is not superadmin
\* leaves every tenant that has an admin-flagged user with one.
TenantKeepsAnAdmin ==
    [][ (resp' # resp /\ resp'.op \in {"update_user", "delete_user"}
         /\ ~ActorIsSuperadmin(resp'.actor)) =>
            \A t \in Tenants :
                AdminUsersOf(roles, users, t) # {} => AdminUsersOf(roles', users', t) # {}
      ]_vars

(***************************************************************************)
(* SpecBilling: entitlement checks, invitations and plan assignment.       *)
(* SpecTenant: the tenant-facing endpoints that touch a tenant row.        *)
(***************************************************************************)
\* Invited users have not accepted the terms yet: their requests end in
\* require_terms_accepted (SpecApi).  Callers here are the other identities.
BillingCallers ==
    ((DOMAIN users) \ InviteIds) \cup {SuperadminId}

Result(status, detail) ==
    [status |-> status, detail |-> detail]

\* usage_crud.record_usage: recorded_at defaults to the time of the insert.
record_usage(usage, tenant_id, feature_slug, usage_amount, clock) ==
    Append(usage, [tenant_id |-> tenant_id, feature_slug |-> feature_slug,
                   usage_amount |-> usage_amount, recorded_at |-> clock])

\* usage_crud.get_current_usage: 0 without a billing period; with one, line
\* 32 evaluates timedelta, a name the module never imports (NameError).
get_current_usage(tn, usage, tenant_id, feature_slug) ==
    IF tenant_id \notin DOMAIN tn \/ tn[tenant_id].current_period_ends_at = NoTime
    THEN [raised |-> FALSE, value |-> 0]
    ELSE [raised |-> TRUE, value |-> 0]

SubscriptionIsLive(tenant) ==
    tenant.subscription_status \in {"active", "trialing"}

SubscriptionIsActive(tenant) ==
    tenant.subscription_status = "active"

LimitExceeded(current_count, value) ==
    current_count > value

LimitReached(current_count, value) ==
    current_count >= value

UserCount(us, t) ==
    Cardinality({ u \in DOMAIN us : us[u].tenant_id = t })

\* check_entitlement(feature_slug, consumed_amount) for the identity a.
entitlement_checker(tn, us, usage, a, feature_slug, consumed_amount) ==
    LET t == ActorTenant(us, a) IN
    IF ActorIsSuperadmin(a)
    THEN Result(200, "-")
    ELSE IF t \notin DOMAIN tn \/ tn[t].plan_id = Null \/ ~SubscriptionIsActive(tn[t])
    THEN Result(402, "No active subscription found.")
    ELSE IF feature_slug \notin DOMAIN PlanEntitlements[tn[t].plan_id]
    THEN Result(402, "Your plan does not include the feature.")
    ELSE LET entitlement == PlanEntitlements[tn[t].plan_id][feature_slug]
             current_usage == get_current_usage(tn, usage, t, feature_slug)
         IN  CASE entitlement.entitlement_type = "FLAG" ->
                    IF entitlement.value # 1
                    THEN Result(402, "This feature is not enabled for your plan.")
                    ELSE Result(200, "-")
               [] entitlement.entitlement_type = "LIMIT" ->
                    IF feature_slug = "max_users" /\ LimitReached(UserCount(us, t), entitlement.value)
                    THEN Result(402, "You have reached the limit of users for your plan.")
                    ELSE Result(200, "-")
               [] entitlement.entitlement_type = "METER" ->
                    IF current_usage.raised
                    THEN Result(500, "NameError")
                    ELSE IF current_usage.value + consumed_amount > entitlement.value
                    THEN Result(402, "You have exceeded your usage quota for this feature.")
                    ELSE Result(200, "-")

\* user_crud.invite_user: the role must be visible to the caller, the
\* identity provider is called, the users row is added and flushed.
\* provider: outcome of invite_user_by_email ("ok" or "exists").
\* POST /users/invite (invite_new_user): dependencies in parameter order,
\* then invite_user.
invite_user(rs, us, calls, a, new_id, role_id, provider) ==
    IF ~VisibleRole(rs, us, a, role_id)
    THEN [users |-> us, calls |-> calls, status |-> 400,
          detail |-> "Role not found or you do not have permission to assign it."]
    ELSE IF provider # "ok"
    THEN [users |-> us, calls |-> calls + 1, status |-> 400,
          detail |-> "User with this email already exists."]
    ELSE [users |-> (new_id :> UserRow(ActorTenant(us, a), role_id)) @@ us,
          calls |-> calls + 1, status |-> 200, detail |-> "-"]

invite_new_user(rs, us, tn, usage, calls, a, new_id, role_id, provider) ==
    LET perm == permission_checker(ActorIsSuperadmin(a), ProfileOfActor(rs, us, a), "USERS_INVITE")
        ent == entitlement_checker(tn, us, usage, a, "max_users", 1)
        refused(st, d) == [users |-> us, calls |-> calls, status |-> st, detail |-> d]
    IN  IF perm.status # 200
        THEN refused(perm.status, perm.detail)
        ELSE IF ent.status # 200
        THEN refused(ent.status, ent.detail)
        ELSE invite_user(rs, us, calls, a, new_id, role_id, provider)

\* An UPDATE is emitted when a column changed; onupdate stamps updated_at.
FlushRow(old, new, clock) ==
    IF new = old THEN old ELSE [new EXCEPT !.updated_at = clock]

\* tenant_crud.assign_plan_to_tenant
assign_plan_to_tenant(db_tenant, plan_assign) ==
    [db_tenant EXCEPT !.plan_id = plan_assign.plan_id,
                      !.subscription_status = plan_assign.subscription_status,
                      !.current_period_ends_at = plan_assign.current_period_ends_at]

\* tenant_crud.update_tenant with a TenantUpdate payload: the schema has the
\* fields name, slug, tenant_data and logo_path and no subscription column.
update_tenant_with_status(db_tenant, payload) ==
    [db_tenant EXCEPT !.name = IF payload.name = Null THEN @ ELSE payload.name,
                      !.subscription_status = "active"]

update_tenant(db_tenant, payload) ==
    [db_tenant EXCEPT !.name = IF payload.name = Null THEN @ ELSE payload.name]

\* get_tenant_admin
IsTenantAdmin(rs, us, a) ==
    \/ ActorIsSuperadmin(a)
    \/ /\ a \in DOMAIN us
       /\ us[a].role_id \in DOMAIN rs
       /\ rs[us[a].role_id].is_admin_role

\* PUT /tenants/me
update_current_tenant(rs, us, tn, a, payload, clock) ==
    LET t == ActorTenant(us, a) IN
    IF ~IsTenantAdmin(rs, us, a)
    THEN [tenants |-> tn, status |-> 403,
          detail |-> "The user does not have admin privileges for this tenant."]
    ELSE IF t \notin DOMAIN tn
    THEN [tenants |-> tn, status |-> 404, detail |-> "Tenant not found."]
    ELSE IF payload.slug # Null
    THEN [tenants |-> tn, status |-> 403,
          detail |-> "Tenant slug can only be changed by a superadmin."]
    ELSE [tenants |-> [tn EXCEPT ![t] = FlushRow(tn[t], update_tenant(tn[t], payload), clock)],
          status |-> 200, detail |-> "-"]

\* One request at a time: the answer is read before the next request.
Billed(op, a, target, amount, status, detail) ==
    /\ resp = NoResp
    /\ resp' = [op |-> op, actor |-> a, target |-> target, new_role |-> "-",
                amount |-> amount, status |-> status, detail |-> detail]
    /\ UNCHANGED outsideBilling

\* POST /superadmin/tenants/{tenant_id}/assign-plan
AssignPlan ==
    \E t \in Customers, plan \in (DOMAIN PlanEntitlements) \cup {"plan9"},
       st \in {"active", "trialing", "past_due"}, ends \in {NoTime, now + PeriodLen} :
        LET found == plan \in DOMAIN PlanEntitlements
            assign == [plan_id |-> plan, subscription_status |-> st,
                       current_period_ends_at |-> ends]
        IN  /\ tenants' = IF found
                          THEN [tenants EXCEPT ![t] =
                                    FlushRow(@, assign_plan_to_tenant(@, assign), now)]
                          ELSE tenants
            /\ Billed("assign_plan", SuperadminId, t, 0, IF found THEN 200 ELSE 404,
                      IF found THEN "-" ELSE "Plan not found.")
            /\ UNCHANGED <<roles, users, billVars>>

\* A metered feature records consumption (usage_crud.record_usage).
RecordUsage ==
    \E t \in Customers, amount \in 1..2 :
        /\ Len(usage_records) < MaxUsageRecords
        /\ usage_records' = record_usage(usage_records, t, "api_calls", amount, now)
        /\ Billed("record_usage", "-", "api_calls", amount, 200, "-")
        /\ UNCHANGED <<tenants, roles, users, provider_invites, checkout_sessions>>

\* A route guarded by check_entitlement(feature_slug, consumed_amount).
CheckEntitlement ==
    \E a \in BillingCallers, slug \in Slugs, amount \in 1..2 :
        LET r == entitlement_checker(tenants, users, usage_records, a, slug, amount)
        IN  /\ slug # "api_calls" => amount = 1
            /\ Billed("check_entitlement", a, slug, amount, r.status, r.detail)
            /\ UNCHANGED <<tenants, roles, users, billVars>>

Invite ==
    \E a \in BillingCallers, role_id \in {"r_viewer1", "r_gone"},
       provider \in {"ok", "exists"} :
        LET new_id == IF "n1" \in DOMAIN users THEN "n2" ELSE "n1"
            out == invite_new_user(roles, users, tenants, usage_records, provider_invites,
                                   a, new_id, role_id, provider)
        IN  /\ provider_invites < MaxInvites
            /\ InviteIds \ DOMAIN users # {}
            /\ users' = out.users
            /\ provider_invites' = out.calls
            /\ Billed("invite", a, role_id, 1, out.status, out.detail)
            /\ UNCHANGED <<tenants, roles, usage_records, checkout_sessions>>

UpdateTenantMe ==
    \E a \in BillingCallers, name \in {Null, "Acme Ltd"}, slug \in {Null, "acme"} :
        LET out == update_current_tenant(roles, users, tenants, a,
                                         [name |-> name, slug |-> slug], now)
        IN  /\ tenants' = out.tenants
            /\ Billed("update_tenant", a, "-", 0, out.status, out.detail)
            /\ UNCHANGED <<roles, users, billVars>>

\* tenant_crud.create_tenant_for_new_user: a tenant with the column
\* defaults, its Admin role and the caller's profile.
create_tenant_for_new_user(rs, us, tn, a) ==
    [ tenants |-> ("t3" :> NewTenant) @@ tn,
      roles |-> ("r_admin3" :> RoleRow("Admin", <<MemberValue("TENANT_ADMIN_PERMISSIONS")>>,
                                       TRUE, "t3")) @@ rs,
      users |-> (a :> UserRow("t3", "r_admin3")) @@ us ]

\* POST /onboarding/tenant.  A caller that has a tenant is refused; any
\* exception of the inserts (a second users row with the caller's id, a
\* token without e-mail) is answered 400 after a rollback.
onboard_new_tenant(rs, us, tn, a, terms_accepted, has_email) ==
    LET same(d) == [tenants |-> tn, roles |-> rs, users |-> us, status |-> 400, detail |-> d]
        made == create_tenant_for_new_user(rs, us, tn, a)
    IN  IF ~terms_accepted
        THEN same("You must accept the Terms and Conditions to proceed.")
        ELSE IF ActorTenant(us, a) # Null
        THEN same("This user is already associated with a tenant.")
        ELSE IF a \in DOMAIN us \/ ~has_email
        THEN same("IntegrityError")
        ELSE [tenants |-> made.tenants, roles |-> made.roles, users |-> made.users,
              status |-> 201, detail |-> "-"]

Onboard ==
    \E a \in BillingCallers, terms_accepted \in BOOLEAN, has_email \in BOOLEAN :
        LET out == onboard_new_tenant(roles, users, tenants, a, terms_accepted, has_email)
        IN  /\ tenants' = out.tenants
            /\ roles' = out.roles
            /\ users' = out.users
            /\ Billed("onboard", a, "-", 0, out.status, out.detail)
            /\ UNCHANGED billVars

\* POST /subscriptions/checkout-session: the only write is the
\* checkout_sessions row.  session: the provider's answer.
Checkout ==
    \E a \in BillingCallers, plan \in {PlanId, "plan9"}, session \in {"cs_1", Null} :
        LET found == plan \in DOMAIN PlanEntitlements
            status == IF ~found THEN 404 ELSE IF session = Null THEN 500 ELSE 200
            row == [id |-> session, tenant_id |-> ActorTenant(users, a), plan_id |-> plan,
                    status |-> "PENDING"]
        IN  /\ checkout_sessions' =
                  IF status = 200 /\ ~ \E c \in checkout_sessions : c.id = session
                  THEN checkout_sessions \cup {row}
                  ELSE checkout_sessions
            /\ Billed("checkout", a, plan, 0, status, "-")
            /\ UNCHANGED <<tenants, roles, users, usage_records, provider_invites>>

\* POST /subscriptions/customer-portal: reads the tenant, writes nothing.
Portal ==
    \E a \in BillingCallers :
        LET t == ActorTenant(users, a)
            status == IF t \notin DOMAIN tenants THEN 404
                      ELSE IF tenants[t].external_customer_id = Null THEN 400 ELSE 200
        IN  /\ Billed("portal", a, "-", 0, status, "-")
            /\ UNCHANGED <<tenants, roles, users, billVars>>

\* The answer has been read.
AnswerRead ==
    /\ resp # NoResp
    /\ resp' = NoResp
    /\ UNCHANGED <<tenants, roles, users, billVars>>
    /\ UNCHANGED outsideBilling

\* Entitlements: plan assignment, usage, entitlement checks, invitations.
NextBilling ==
    \/ AnswerRead
    \/ AssignPlan
    \/ RecordUsage
    \/ CheckEntitlement
    \/ Invite

SpecBilling ==
    Init /\ [][NextBilling]_vars

\* The endpoints that read or write a tenant row.
NextTenant ==
    \/ AnswerRead
    \/ AssignPlan
    \/ UpdateTenantMe
    \/ Onboard
    \/ Checkout
    \/ Portal

SpecTenant ==
    Init /\ [][NextTenant]_vars

\* The tenant of a non-superadmin caller has an active plan holding slug.
HasActiveEntitlement(a, slug) ==
    /\ ~ActorIsSuperadmin(a)
    /\ ActorTenant(users, a) \in DOMAIN tenants
    /\ tenants[ActorTenant(users, a)].plan_id # Null
    /\ tenants[ActorTenant(users, a)].subscription_status = "active"
    /\ slug \in DOMAIN PlanEntitlements[tenants[ActorTenant(users, a)].plan_id]

EntitlementOf(a, slug) ==
    PlanEntitlements[tenants[ActorTenant(users, a)].plan_id][slug]

MayInvite(a) ==
    permission_checker(ActorIsSuperadmin(a), ProfileOfActor(roles, users, a),
                       "USERS_INVITE").status = 200

\* C15: for a non-superadmin caller whose tenant has an active plan with a
\* max_users LIMIT of N: when the tenant has N or more users, an invite makes
\* no identity-provider call and inserts no user row, and a caller holding
\* USERS_INVITE is answered 402; when it has fewer than N users the
\* entitlement check passes (the answer of such a caller is not 402).
MaxUsersLimitEnforced ==
    [][ (resp'.op = "invite" /\ resp' # resp /\ HasActiveEntitlement(resp'.actor, "max_users")
         /\ EntitlementOf(resp'.actor, "max_users").entitlement_type = "LIMIT") =>
            LET a == resp'.actor
                N == EntitlementOf(a, "max_users").value
                count == UserCount(users, ActorTenant(users, a))
            IN  IF count >= N
                THEN /\ users' = users
                     /\ provider_invites' = provider_invites
                     /\ MayInvite(a) => resp'.status = 402
                ELSE MayInvite(a) => resp'.status \in {200, 400} ]_vars

\* An invite was refused with 402 at the limit, after an invite succeeded.
InviteRefusedAtLimit ==
    /\ resp.op = "invite"
    /\ resp.status = 402
    /\ resp.detail = "You have reached the limit of users for your plan."
    /\ UserCount(users, "t1") = MaxUsers
    /\ provider_invites > 0

\* Usage of a feature recorded inside the billing window of tenant t.
UsageInWindow(t, slug) ==
    LET ends == tenants[t].current_period_ends_at
        RECURSIVE Sum(_)
        Sum(i) == IF i = 0 THEN 0
                  ELSE Sum(i - 1) +
                       (IF /\ usage_records[i].tenant_id = t
                           /\ usage_records[i].feature_slug = slug
                           /\ usage_records[i].recorded_at >= ends - PeriodLen
                           /\ usage_records[i].recorded_at <= ends
                        THEN usage_records[i].usage_amount ELSE 0)
    IN  Sum(Len(usage_records))

\* C16: for a METER entitlement with cap C and usage U recorded inside the
\* tenant's current billing window, a consumption of a is refused with 402
\* when U + a > C and allowed when U + a <= C.
MeterContract ==
    [][ (resp'.op = "check_entitlement" /\ resp' # resp
         /\ HasActiveEntitlement(resp'.actor, resp'.target)
         /\ EntitlementOf(resp'.actor, resp'.target).entitlement_type = "METER"
         /\ tenants[ActorTenant(users, resp'.actor)].current_period_ends_at # NoTime) =>
            LET U == UsageInWindow(ActorTenant(users, resp'.actor), resp'.target)
                C == EntitlementOf(resp'.actor, resp'.target).value
            IN  resp'.status = IF U + resp'.amount > C THEN 402 ELSE 200 ]_vars

\* C17: check_entitlement lets a superadmin through; any other identity is
\* answered 402 when its tenant has no plan, a subscription_status other
\* than 'active', a plan without the feature_slug, or a FLAG entitlement
\* whose value is not 1; a FLAG of value 1 on an active plan passes.
EntitlementGate ==
    [][ (resp'.op = "check_entitlement" /\ resp' # resp) =>
            LET a == resp'.actor
                t == ActorTenant(users, a)
                slug == resp'.target
            IN  /\ ActorIsSuperadmin(a) => resp'.status = 200
                /\ (~ActorIsSuperadmin(a) /\ t \notin DOMAIN tenants) => resp'.status = 402
                /\ (~ActorIsSuperadmin(a) /\ t \in DOMAIN tenants) =>
                     /\ tenants[t].plan_id = Null => resp'.status = 402
                     /\ tenants[t].subscription_status # "active" => resp'.status = 402
                     /\ (tenants[t].plan_id # Null
                         /\ slug \notin DOMAIN PlanEntitlements[tenants[t].plan_id])
                            => resp'.status = 402
                     /\ (HasActiveEntitlement(a, slug)
                         /\ EntitlementOf(a, slug).entitlement_type = "FLAG")
                            => resp'.status = IF EntitlementOf(a, slug).value = 1
                                              THEN 200 ELSE 402 ]_vars

\* A caller on a trialing plan that holds the feature was answered 402.
TrialingPlanRefused ==
    /\ resp.op = "check_entitlement"
    /\ resp.actor = "u1"
    /\ resp.target = "sso"
    /\ tenants["t1"].plan_id = PlanId
    /\ tenants["t1"].subscription_status = "trialing"
    /\ resp.status = 402

\* C18: a step that changes a tenant's subscription_status, plan_id or
\* current_period_ends_at is a superadmin assign-plan request: tenant
\* self-update, onboarding, checkout-session creation and customer-portal
\* creation (and every other request here) leave the three fields alone.
SubscriptionFieldsAreProviderDriven ==
    [][ \A t \in DOMAIN tenants :
            \/ /\ t \in DOMAIN tenants'
               /\ tenants'[t].subscription_status = tenants[t].subscription_status
               /\ tenants'[t].plan_id = tenants[t].plan_id
               /\ tenants'[t].current_period_ends_at = tenants[t].current_period_ends_at
            \/ resp'.op = "assign_plan" ]_vars

\* A tenant on a trialing plan renamed itself.
TenantRenamedWhileTrialing ==
    /\ resp.op = "update_tenant"
    /\ resp.status = 200
    /\ tenants["t1"].name = "Acme Ltd"
    /\ tenants["t1"].subscription_status = "trialing"
    /\ tenants["t1"].plan_id = PlanId

(***************************************************************************)
(* SpecInvite: POST /users/invite served by two workers.  A request walks  *)
(* through its dependencies in the order FastAPI resolves them (parameter  *)
(* order, sub-dependencies first, each resolved once): get_current_user    *)
(* with require_terms_accepted, require_permission(USERS_INVITE),          *)
(* check_entitlement("max_users"); then the route body, then the commit of *)
(* get_auth_rls_session.  Every read sees the committed tables (READ       *)
(* COMMITTED); the inserted row becomes visible with the commit.           *)
(***************************************************************************)
\* The id the identity provider gives the user a worker invites.
NewIdOf(p) ==
    IF p = "p1" THEN "n1" ELSE "n2"

InFlight(q) ==
    procs[q].pc \notin {"idle", "done"}

\* Variant: the terms check lets every caller through.
require_terms_skipped(us, a, accepted) ==
    Result(200, "-")

\* dependencies.py lines 121-137; accepted: terms_accepted_at of the
\* caller's row is set.
require_terms_accepted(us, a, accepted) ==
    IF ActorIsSuperadmin(a)
    THEN Result(200, "-")
    ELSE IF a \notin DOMAIN us \/ ~accepted
    THEN Result(403, "TERMS_NOT_ACCEPTED")
    ELSE Result(200, "-")

\* The request of a worker is answered: the worker keeps the status sent.
Replied(proc, status) ==
    [NoProc EXCEPT !.pc = "done", !.status = status, !.alone = proc.alone]

\* The request of worker p moves on, or is answered with the error.
InviteStep(p, r, next) ==
    procs' = [procs EXCEPT ![p] =
                IF r.status = 200
                THEN [@ EXCEPT !.pc = next, !.terms = FALSE]
                ELSE Replied(@, r.status)]

\* The callers: an admin of t1, a user whose role lacks USERS_INVITE, and
\* the superadmin.
InviteCallers ==
    {"u1", "u5", SuperadminId}

\* An authenticated request arrives at worker p.
BeginInvite(p) ==
    /\ ~InFlight(p)
    /\ NewIdOf(p) \notin DOMAIN users
    /\ \E a \in InviteCallers, accepted \in BOOLEAN :
         procs' = [q \in Pids |->
                     IF q = p
                     THEN [NoProc EXCEPT !.op = "invite", !.pc = "terms", !.actor = a,
                                         !.terms = accepted,
                                         !.alone = \A o \in Pids \ {p} : ~InFlight(o)]
                     ELSE IF InFlight(q) THEN [procs[q] EXCEPT !.alone = FALSE]
                     ELSE procs[q]]
    /\ UNCHANGED <<tenants, users, provider_invites>>
    /\ UNCHANGED outsideInvite

\* get_current_user -> require_terms_accepted
InviteTerms(p) ==
    /\ procs[p].op = "invite" /\ procs[p].pc = "terms"
    /\ InviteStep(p, require_terms_accepted(users, procs[p].actor, procs[p].terms),
                  "permission")
    /\ UNCHANGED <<tenants, users, provider_invites>>
    /\ UNCHANGED outsideInvite

\* require_permission(AppPermissions.USERS_INVITE)
InvitePermission(p) ==
    /\ procs[p].op = "invite" /\ procs[p].pc = "permission"
    /\ InviteStep(p, permission_checker(ActorIsSuperadmin(procs[p].actor),
                                        ProfileOfActor(roles, users, procs[p].actor),
                                        "USERS_INVITE"),
                  "entitlement")
    /\ UNCHANGED <<tenants, users, provider_invites>>
    /\ UNCHANGED outsideInvite

\* check_entitlement("max_users")
InviteEntitlement(p) ==
    /\ procs[p].op = "invite" /\ procs[p].pc = "entitlement"
    /\ InviteStep(p, entitlement_checker(tenants, users, usage_records, procs[p].actor,
                                         "max_users", 1),
                  "body")
    /\ UNCHANGED <<tenants, users, provider_invites>>
    /\ UNCHANGED outsideInvite

\* The route body: user_crud.invite_user calls the identity provider and
\* flushes the new users row; a ValueError is answered 400 after a rollback.
InviteBody(p) ==
    /\ procs[p].op = "invite" /\ procs[p].pc = "body"
    /\ provider_invites < MaxInvites
    /\ \E role_id \in {"r_viewer1", "r_gone"}, provider \in {"ok", "exists"} :
         LET out == invite_user(roles, users, provider_invites, procs[p].actor,
                                NewIdOf(p), role_id, provider)
         IN  /\ provider_invites' = out.calls
             /\ procs' = [procs EXCEPT ![p] =
                            IF out.status = 200
                            THEN [@ EXCEPT !.pc = "commit", !.role = role_id]
                            ELSE Replied(@, out.status)]
    /\ UNCHANGED <<tenants, users>>
    /\ UNCHANGED outsideInvite

\* get_auth_rls_session after the yield: db.commit().
InviteCommit(p) ==
    /\ procs[p].op = "invite" /\ procs[p].pc = "commit"
    /\ users' = (NewIdOf(p) :> UserRow(ActorTenant(users, procs[p].actor), procs[p].role))
                    @@ users
    /\ procs' = [procs EXCEPT ![p] = Replied(@, 200)]
    /\ UNCHANGED <<tenants, provider_invites>>
    /\ UNCHANGED outsideInvite

NextInvite ==
    \/ AnswerRead
    \/ AssignPlan
    \/ \E p \in Pids : BeginInvite(p)
    \/ \E p \in Pids : InviteTerms(p)
    \/ \E p \in Pids : InvitePermission(p)
    \/ \E p \in Pids : InviteEntitlement(p)
    \/ \E p \in Pids : InviteBody(p)
    \/ \E p \in Pids : InviteCommit(p)

SpecInvite ==
    Init /\ [][NextInvite]_vars

\* Whether the caller has accepted the terms or needs not (superadmin).
TermsOk(a, accepted) ==
    ActorIsSuperadmin(a) \/ (a \in DOMAIN users /\ accepted)

\* Whether the caller's tenant may add a user under its plan.
EntitledToInvite(a) ==
    \/ ActorIsSuperadmin(a)
    \/ /\ HasActiveEntitlement(a, "max_users")
       /\ UserCount(users, ActorTenant(users, a)) < EntitlementOf(a, "max_users").value

\* C24: on the route with an entitlement check (POST /users/invite) the
\* checks run in the order terms, permission, entitlement: a request reaches
\* the permission check only from a passed terms check, the entitlement
\* check only from a passed permission check and the route body only from a
\* passed entitlement check, and a request that fails a check is answered
\* there (403, 403, 402) and goes no further.
ChecksRunInOrder ==
    [][ \A p \in Pids :
          LET a == procs[p]
              b == procs'[p]
          IN  (a.op = "invite" /\ a.pc # b.pc) =>
                /\ b.pc = "permission" => (a.pc = "terms" /\ TermsOk(a.actor, a.terms))
                /\ b.pc = "entitlement" => (a.pc = "permission" /\ MayInvite(a.actor))
                /\ b.pc = "body" => (a.pc = "entitlement" /\ EntitledToInvite(a.actor))
                /\ b.pc = "commit" => a.pc = "body"
                /\ (a.pc = "terms" /\ ~TermsOk(a.actor, a.terms)) =>
                       (b.pc = "done" /\ b.status = 403)
                /\ (a.pc = "permission" /\ ~MayInvite(a.actor)) =>
                       (b.pc = "done" /\ b.status = 403)
                /\ (a.pc = "entitlement" /\ ~EntitledToInvite(a.actor)) =>
                       (b.pc = "done" /\ b.status = 402)
      ]_vars

\* C24 witness: the request of a tenant user has passed the three checks
\* while another request was refused by the entitlement check.
InvitePassedAllChecks ==
    \E p, q \in Pids :
        /\ procs[p].pc = "commit" /\ procs[p].actor = "u1"
        /\ procs[q].pc = "done" /\ procs[q].status = 402

\* C25: an invitation served while no other request is in flight keeps the
\* tenant within the max_users limit of its plan: after its commit the tenant
\* has at most N users.  (Two overlapping invitations can both pass the
\* check and both insert: the witness.)
SerializedInvitesKeepLimit ==
    [][ \A p \in Pids :
          (/\ procs[p].op = "invite" /\ procs[p].pc = "commit" /\ procs'[p].pc = "done"
           /\ procs[p].alone
           /\ ~ActorIsSuperadmin(procs[p].actor)) =>
              UserCount(users', ActorTenant(users, procs[p].actor))
                  <= PlanEntitlements["plan1"]["max_users"].value
      ]_vars

\* C25 witness: tenant t1 with N - 1 users under the limit N of its active
\* plan has N + 1 users after two overlapping invitations that both passed
\* the check and both inserted.
BothInvitesInserted ==
    /\ \A p \in Pids : procs[p].pc = "done" /\ procs[p].status = 200 /\ ~procs[p].alone
    /\ tenants["t1"].plan_id = "plan1" /\ tenants["t1"].subscription_status = "active"
    /\ UserCount(users, "t1") = PlanEntitlements["plan1"]["max_users"].value + 1
    /\ UserCount(InitUsers, "t1") = PlanEntitlements["plan1"]["max_users"].value - 1

(***************************************************************************)
(* SpecRace: webhook deliveries served by two workers.  A delivery is the  *)
(* sequence idempotency read, row insert, processing, commit; every read   *)
(* sees the committed tables (READ COMMITTED).  webhook_events.id is the   *)
(* primary key: an insert of an id that is committed fails, and an insert  *)
(* of an id another transaction has inserted and not yet committed waits   *)
(* for that transaction to end.                                            *)
(***************************************************************************)
\* The events delivered: an activation, a checkout, two events whose
\* processing is refused, and a payment failure.
RaceEvents ==
    { MkEvent("dodo", <<"subscription.active", "ok">>, 1, "t1"),
      MkEvent("dodo", <<"subscription.on_hold", "ok">>, 1, Null),
      MkEvent("stripe", <<"checkout.session.completed", "subscription">>, 1, "t1"),
      MkEvent("stripe", <<"checkout.session.completed", "no_ids">>, 1, "t1"),
      MkEvent("stripe", <<"invoice.payment_failed", "-">>, 1, "t1") }

\* Variant: the table has no primary key.
NoPrimaryKey(rows, ev) ==
    FALSE

\* models.py lines 244-252: id is the primary key of webhook_events.
PrimaryKeyConflict(rows, ev) ==
    HasRow(rows, ev)

\* Another worker has inserted the id in a transaction still open.
InsertPending(p, ev) ==
    \E q \in Pids \ {p} : procs[q].held /\ procs[q].ev = ev

\* The delivery of worker p is answered.
Delivered(proc, status, body) ==
    [NoProc EXCEPT !.pc = "done", !.ev = proc.ev, !.status = status, !.body = body]

\* A signed webhook request arrives at worker p.
BeginDelivery(p) ==
    /\ ~InFlight(p)
    /\ deliveries < MaxDeliveries
    /\ \E ev \in RaceEvents :
         /\ ev.ts <= now
         /\ procs' = [procs EXCEPT ![p] =
                        [NoProc EXCEPT !.op = ev.provider, !.pc = "read", !.ev = ev]]
    /\ deliveries' = deliveries + 1
    /\ UNCHANGED <<tenants, webhook_events, applied>>
    /\ UNCHANGED outsideRace

\* The idempotency check: webhooks.py line 48 (Dodo), lines 102-114 (Stripe).
ReadRow(p) ==
    /\ procs[p].pc = "read"
    /\ LET ev == procs[p].ev
           dup == IF procs[p].op = "dodo"
                  THEN DodoIsDuplicate(webhook_events, ev)
                  ELSE StripeIsDuplicate(webhook_events, ev)
       IN  procs' = [procs EXCEPT ![p] =
                       IF dup
                       THEN Delivered(@, IF @.op = "dodo" THEN 202 ELSE 200, "duplicate")
                       ELSE IF HasRow(webhook_events, ev)
                       THEN [@ EXCEPT !.pc = "process"]
                       ELSE [@ EXCEPT !.pc = "insert"]]
    /\ UNCHANGED <<tenants, webhook_events, deliveries, applied>>
    /\ UNCHANGED outsideRace

\* The row insert: add and commit (Dodo, lines 54-56) or add and flush
\* (Stripe, lines 116-119).  Both statements are outside the try block, so
\* the IntegrityError reaches the session dependency: rollback, 500.
InsertRow(p) ==
    /\ procs[p].pc = "insert"
    /\ ~InsertPending(p, procs[p].ev)
    /\ LET ev == procs[p].ev IN
       IF PrimaryKeyConflict(webhook_events, ev)
       THEN /\ procs' = [procs EXCEPT ![p] = Delivered(@, 500, "conflict")]
            /\ UNCHANGED webhook_events
       ELSE IF procs[p].op = "dodo"
       THEN /\ webhook_events' = webhook_events \cup {NewRow(ev)}
            /\ procs' = [procs EXCEPT ![p] = [@ EXCEPT !.pc = "process"]]
       ELSE /\ procs' = [procs EXCEPT ![p] = [@ EXCEPT !.pc = "process", !.held = TRUE]]
            /\ UNCHANGED webhook_events
    /\ UNCHANGED <<tenants, deliveries, applied>>
    /\ UNCHANGED outsideRace

\* process_event / process_stripe_event inside the try block: the writes
\* stay in the open transaction; an HTTPException or another exception rolls
\* it back and the request is answered.
ProcessRow(p) ==
    /\ procs[p].pc = "process"
    /\ \E fault \in {"none", "system_error"}, sub \in SubInputs(procs[p].ev),
          planFound \in PlanInputs(procs[p].ev) :
         LET ev == procs[p].ev
             r == IF procs[p].op = "dodo"
                  THEN process_event(tenants, ev, now, planFound)
                  ELSE process_stripe_event(tenants, ev, now, sub, planFound)
             t == TenantOfEvent(tenants, ev)
             dirty == t # Null /\ r.tenants # tenants
         IN  procs' = [procs EXCEPT ![p] =
                         IF fault = "system_error"
                         THEN Delivered(@, 500, "failed")
                         ELSE IF r.raised # "none"
                         THEN Delivered(@, IF @.op = "dodo" THEN 202 ELSE 200, "error")
                         ELSE [@ EXCEPT !.pc = "commit",
                                        !.tenant = IF dirty THEN t ELSE Null,
                                        !.new = IF dirty THEN r.tenants[t] ELSE NewTenant,
                                        !.applied = r.applied # {}]]
    /\ UNCHANGED <<tenants, webhook_events, deliveries, applied>>
    /\ UNCHANGED outsideRace

\* The commit of line 66 (Dodo) or of get_system_db_session (Stripe): the
\* tenant write and the row with its flag become visible together.
CommitRow(p) ==
    /\ procs[p].pc = "commit"
    /\ LET ev == procs[p].ev IN
       /\ tenants' = IF procs[p].tenant = Null
                     THEN tenants
                     ELSE [tenants EXCEPT ![procs[p].tenant] = procs[p].new]
       /\ webhook_events' = PutRow(webhook_events, ev, TRUE)
       /\ applied' = IF procs[p].applied
                     THEN applied \cup {<<ev, TenantOfEvent(tenants, ev)>>}
                     ELSE applied
       /\ procs' = [procs EXCEPT ![p] =
                      Delivered(@, IF @.op = "dodo" THEN 202 ELSE 200, "processed")]
    /\ UNCHANGED deliveries
    /\ UNCHANGED outsideRace

NextRace ==
    \/ Tick
    \/ \E p \in Pids : BeginDelivery(p)
    \/ \E p \in Pids : ReadRow(p)
    \/ \E p \in Pids : InsertRow(p)
    \/ \E p \in Pids : ProcessRow(p)
    \/ \E p \in Pids : CommitRow(p)

SpecRace ==
    Init /\ [][NextRace]_vars

\* C23: deliveries of one event id served concurrently apply its transition
\* at most once: a commit that applies the transition of an event finds it
\* not applied before; and the delivery that loses the primary-key conflict
\* is answered 500 and writes nothing.
TransitionAppliedAtMostOnce ==
    [][ /\ \A p \in Pids :
             /\ (procs[p].pc = "commit" /\ procs'[p].pc = "done" /\ procs[p].applied) =>
                    \A t \in Tenants : <<procs[p].ev, t>> \notin applied
             /\ (procs[p].pc = "insert" /\ procs'[p].pc = "done") =>
                    /\ procs'[p].status = 500
                    /\ tenants' = tenants
                    /\ webhook_events' = webhook_events
        /\ tenants' # tenants =>
             \E p \in Pids : procs[p].pc = "commit" /\ procs'[p].pc = "done"
      ]_vars

\* C23 witness: two deliveries of one event id overlapped; one applied the
\* transition and the other lost the primary-key conflict.
ConflictLoserSeen ==
    \E p, q \in Pids :
        /\ procs[p].body = "processed" /\ procs[q].body = "conflict"
        /\ procs[p].ev = procs[q].ev
        /\ <<procs[p].ev, "t1">> \in applied
        /\ Core(tenants["t1"]) # Core(NewTenant)

====
